---- MODULE Spec2Model ----
(***************************************************************************)
(* A-Maze-ing: the maze generator (loop-erased random walk, Wilson's       *)
(* algorithm) of mazegen/MazeGenerator.py, the Maze object of              *)
(* mazegen/Maze.py and the breadth-first path finder of                    *)
(* mazegen/PathFinder.py.                                                  *)
(*                                                                         *)
(* Python lists are sequences; the list index k is the sequence index      *)
(* k + 1.  The cell value False is the integer 0 (False == 0 in Python).   *)
(* random.Random is abstracted as a 16-bit linear congruential generator:  *)
(* the stream of draws is a function of the seed alone.                    *)
(***************************************************************************)
EXTENDS Integers, Sequences, FiniteSets, TLC

---------------------------------------------------------------------------
(* Bounds of the model.                                                    *)

\* seeds handed to create_maze_instant / create_maze are 0..MaxSeed
MaxSeed == 1
\* visualisation_tempo values the caller may set are 1..MaxTempo
MaxTempo == 2
\* the walk-step counter i of a run is capped at MaxSteps
MaxSteps == 1000
\* a stepwise run is given up in the walk only while its counter i is at
\* most MaxAbandon
MaxAbandon == 1

---------------------------------------------------------------------------
(* Cell values sharing the one storage slot of maze_map.                   *)

\* [False] * (width * height), and the reset value of _earase_loop
UNVISITED == 0
\* background of the heart mask
BACKGROUND == 1
\* 0xF / 0b1111: obstacle, or a cell with all four walls closed
WALLS == 15
\* tentatively part of the current walk
PENDING == 16
\* the walk came back to a Pending cell
LOOP == -1

\* Direction.NORTH .. Direction.WEST
NORTH == 0
EAST == 1
SOUTH == 2
WEST == 3

opposite(d) ==
  CASE d = NORTH -> SOUTH
    [] d = SOUTH -> NORTH
    [] d = EAST  -> WEST
    [] d = WEST  -> EAST

---------------------------------------------------------------------------
(* Python primitives.                                                      *)

Pow2(d) == CASE d = 0 -> 1 [] d = 1 -> 2 [] d = 2 -> 4 [] d = 3 -> 8

\* val & (1 << d) != 0
BitSet(val, d) == (val \div Pow2(d)) % 2 = 1

\* val & ~(1 << d)
ClearBit(val, d) == IF BitSet(val, d) THEN val - Pow2(d) ELSE val

\* lst[k] for k >= 0
At(lst, k) == lst[k + 1]

\* lst[k] = v for k >= 0
Put(lst, k, v) == [lst EXCEPT ![k + 1] = v]

\* lst[k] raises IndexError outside -len .. len-1
PyInRange(lst, k) == (0 - Len(lst)) <= k /\ k < Len(lst)

\* lst[k] with Python's negative indices
PyGet(lst, k) == IF k >= 0 THEN lst[k + 1] ELSE lst[Len(lst) + k + 1]

\* list(a_set)[k]: the iteration order of the set, taken as ascending
ListOfSetAt(S, k) == CHOOSE x \in S : Cardinality({ y \in S : y < x }) = k

\* the truth value of a cell: not False and not 0
Truthy(v) == v # 0

---------------------------------------------------------------------------
(* random.Random: seed() and choice().                                     *)

\* the generator behind random.Random, taken as the linear congruential
\* generator of 16 bits with these multiplier, increment and modulus
Lcg == [A |-> 25173, C |-> 13849, M |-> 65536]

\* Random().seed(seed)
Seeded(seed) == seed % Lcg.M

\* the state after one draw
NextRandom(r) == (Lcg.A * r + Lcg.C) % Lcg.M

\* the index _randbelow(n) picks in the state after the draw
RandBelow(r, n) == (r * n) \div Lcg.M

\* random.choice(lst) from state r: the element, lst non-empty
Choice(r, lst) == lst[RandBelow(NextRandom(r), Len(lst)) + 1]

\* random.choice(list(a_set)) from state r, the set non-empty
ChoiceOfSet(r, S) == ListOfSetAt(S, RandBelow(NextRandom(r), Cardinality(S)))

---------------------------------------------------------------------------
(* Exact integer arithmetic for the heart inequality: non-negative numbers *)
(* as little-endian sequences of base-100 digits.                          *)

RECURSIVE BigOf(_)
BigOf(n) == IF n < 100 THEN << n >> ELSE << n % 100 >> \o BigOf(n \div 100)

RECURSIVE BigMulC(_, _, _)
\* b * m + carry, for a small m
BigMulC(b, m, carry) ==
  IF b = << >> THEN (IF carry = 0 THEN << >> ELSE BigOf(carry))
  ELSE LET t == Head(b) * m + carry
       IN  << t % 100 >> \o BigMulC(Tail(b), m, t \div 100)

BigMul(b, m) == BigMulC(b, m, 0)

RECURSIVE BigProd(_, _)
\* b * ms[1] * ... * ms[Len(ms)], for small factors
BigProd(b, ms) == IF ms = << >> THEN b
                  ELSE BigProd(BigMul(b, Head(ms)), Tail(ms))

RECURSIVE BigTrim(_)
BigTrim(b) == IF b # << >> /\ b[Len(b)] = 0
              THEN BigTrim(SubSeq(b, 1, Len(b) - 1)) ELSE b

RECURSIVE BigLeqAt(_, _, _)
BigLeqAt(x, y, k) == IF k = 0 THEN TRUE
                     ELSE IF x[k] # y[k] THEN x[k] < y[k]
                     ELSE BigLeqAt(x, y, k - 1)

BigLeq(a, b) == LET x == BigTrim(a)
                    y == BigTrim(b)
                IN  IF Len(x) # Len(y) THEN Len(x) < Len(y)
                    ELSE BigLeqAt(x, y, Len(x))

Abs(n) == IF n < 0 THEN 0 - n ELSE n

---------------------------------------------------------------------------
(* MazeGenerator: setup.                                                   *)

GridTooSmall == "ValueError: Maze is to small for the '42' sign."
InvalidStart == "ValueError: Invalid start coordinates."
InvalidEnd == "ValueError: Invalid end coordinates."
IndexError == "IndexError"
KeyError == "KeyError"

\* range(width * height) as a set
Cells(width, height) == 0 .. (width * height - 1)

\* (px**2 + y_adj**2 - 1)**3 - px**2 * y_adj**3 <= 0 at (x, y), with
\* px = A / (4 width), y_adj = B / (20 height): the inequality multiplied by
\* (400 width^2 height^2)^3 reads P^3 <= 500 A^2 B^3 width^4 height^3.
InsideHeart(x, y, width, height) ==
  LET A == 5 * (2 * x - width)
      B == 29 * height - 50 * y
      P == 25 * height * height * A * A + width * width * B * B
           - 400 * width * width * height * height
      L == BigProd(BigOf(Abs(P)), << Abs(P), Abs(P) >>)
      R == BigProd(BigOf(500), << width, width, width, width,
                                  height, height, height,
                                  A * A, Abs(B), Abs(B), Abs(B) >>)
  IN  CASE P >= 0 /\ B >= 0 -> BigLeq(L, R)
        [] P >= 0 /\ B < 0  -> P = 0 /\ A = 0
        [] P < 0 /\ B >= 0  -> TRUE
        [] P < 0 /\ B < 0   -> BigLeq(R, L)

\* the list heart_map: 0 inside the heart, 1 for the background
_generate_heart_shape(width, height) ==
  [k \in 1 .. (IF width * height > 0 THEN width * height ELSE 0) |->
     IF InsideHeart((k - 1) % width, (k - 1) \div width, width, height)
     THEN 0 ELSE BACKGROUND]

\* the cells of the '42' sign around the central cell
Sign42(width, height) ==
  LET c == (height \div 2) * width + (width \div 2)
  IN  { c - 1, c - 2, c - 3, c - 3 - width, c - 3 - width * 2,
        c - 1 + width, c - 1 + width * 2,
        c + 1, c + 2, c + 3, c + 3 - width, c + 3 - width * 2,
        c + 2 - width * 2, c + 1 - width * 2,
        c + 1 + width, c + 1 + width * 2,
        c + 2 + width * 2, c + 3 + width * 2 }

\* a variant of _set_42 that leaves out the last cell of the sign
Set42Short(maze_map, width, height) ==
  [k \in DOMAIN maze_map |->
     IF (k - 1) \in Sign42(width, height)
        /\ k - 1 # (height \div 2) * width + (width \div 2) + 3 + width * 2
     THEN WALLS ELSE maze_map[k]]

\* every cell of the sign is set to 0xF
_set_42(maze_map, width, height) ==
  [k \in DOMAIN maze_map |->
     IF (k - 1) \in Sign42(width, height) THEN WALLS ELSE maze_map[k]]

\* a cell the setup excludes: 0xF or 1
Excluded(v) == v = WALLS \/ v = BACKGROUND

\* a variant of _populate_neighbor_links that does not test the cell to the
\* east for 0xF or 1
LinksIntoObstacles(maze_map, width, height) ==
  [k \in DOMAIN maze_map |->
     LET c == k - 1
         x == c % width
         y == c \div width
     IN  (IF x > 0 /\ ~Excluded(At(maze_map, c - 1))
          THEN << c - 1 >> ELSE << >>)
         \o (IF x < width - 1 THEN << c + 1 >> ELSE << >>)
         \o (IF y > 0 /\ ~Excluded(At(maze_map, c - width))
             THEN << c - width >> ELSE << >>)
         \o (IF y < height - 1 /\ ~Excluded(At(maze_map, c + width))
             THEN << c + width >> ELSE << >>)]

\* the adjacency list: for every cell the in-grid neighbours that are not
\* excluded, in the order west, east, north, south
_populate_neighbor_links(maze_map, width, height) ==
  [k \in DOMAIN maze_map |->
     LET c == k - 1
         x == c % width
         y == c \div width
     IN  (IF x > 0 /\ ~Excluded(At(maze_map, c - 1))
          THEN << c - 1 >> ELSE << >>)
         \o (IF x < width - 1 /\ ~Excluded(At(maze_map, c + 1))
             THEN << c + 1 >> ELSE << >>)
         \o (IF y > 0 /\ ~Excluded(At(maze_map, c - width))
             THEN << c - width >> ELSE << >>)
         \o (IF y < height - 1 /\ ~Excluded(At(maze_map, c + width))
             THEN << c + width >> ELSE << >>)]

\* a variant of _clear_pattern_from_available that removes the cells holding
\* 0xF only
ClearSignOnly(maze_map, available_cells) ==
  available_cells \ { c \in available_cells : At(maze_map, c) = WALLS }

\* the available set without the excluded cells
_clear_pattern_from_available(maze_map, available_cells) ==
  available_cells \ { c \in available_cells : Excluded(At(maze_map, c)) }

\* every background cell is reset to 0
_remove_maze_artifacts(maze_map) ==
  [k \in DOMAIN maze_map |->
     IF maze_map[k] = BACKGROUND THEN 0 ELSE maze_map[k]]

\* a variant of _is_entry_exit_valid that leaves out lines 64-66: the exit
\* is not looked at
ValidEntryOnly(maze_map, entry, exit) ==
  IF ~PyInRange(maze_map, entry) THEN IndexError
  ELSE IF Excluded(PyGet(maze_map, entry)) THEN InvalidStart
  ELSE ""

\* the error _is_entry_exit_valid raises, "" when it returns
_is_entry_exit_valid(maze_map, entry, exit) ==
  IF ~PyInRange(maze_map, entry) THEN IndexError
  ELSE IF Excluded(PyGet(maze_map, entry)) THEN InvalidStart
  ELSE IF ~PyInRange(maze_map, exit) THEN IndexError
  ELSE IF Excluded(PyGet(maze_map, exit)) THEN InvalidEnd
  ELSE ""

\* the fields of a MazeGenerator before any call
NoGenerator ==
  [ maze_random |-> 0, draws |-> 0, maze_map |-> << >>,
    available_cells |-> {}, width |-> 0, height |-> 0, found |-> {},
    seed |-> 0, is_perfect |-> TRUE, visualisation_tempo |-> 1,
    heart |-> FALSE, neighbors |-> << >> ]

\* the assignments of _prepare_data up to the heart mask
PrepareFields(seed, width, height, is_perfect, heart) ==
  [ maze_random |-> Seeded(seed), draws |-> 0,
    maze_map |-> IF heart THEN _generate_heart_shape(width, height)
                 ELSE [k \in 1 .. (IF width * height > 0
                                   THEN width * height ELSE 0) |-> UNVISITED],
    available_cells |-> Cells(width, height),
    width |-> width, height |-> height, found |-> {},
    seed |-> seed, is_perfect |-> is_perfect, visualisation_tempo |-> 1,
    heart |-> heart, neighbors |-> << >> ]

\* a variant of the size check of line 41 with `or` for `and`
GridFitsEither(width, height) == height > 6 \/ width > 8

\* the size check of line 41, negated there
GridFits(width, height) == height > 6 /\ width > 8

\* the body of _prepare_data: the new fields and the error raised ("" if
\* none)
Prepared(seed, width, height, is_perfect, heart, entry, exit) ==
  LET g0 == PrepareFields(seed, width, height, is_perfect, heart)
  IN  IF ~GridFits(width, height)
      THEN [gen |-> g0, error |-> GridTooSmall]
      ELSE
        LET m1 == _set_42(g0.maze_map, width, height)
            g1 == [g0 EXCEPT !.maze_map = m1]
            e  == _is_entry_exit_valid(m1, entry, exit)
        IN  IF e # "" THEN [gen |-> g1, error |-> e]
            ELSE
              LET nb == _populate_neighbor_links(m1, width, height)
                  av == _clear_pattern_from_available(m1, g1.available_cells)
                  m2 == IF heart THEN _remove_maze_artifacts(m1) ELSE m1
              IN  [gen |-> [g1 EXCEPT !.neighbors = nb,
                                      !.available_cells = av,
                                      !.maze_map = m2],
                   error |-> ""]

\* a variant of _prepare_data that leaves out line 29 on a generator that
\* has a grid: the cells taken from available_cells before stay out of it
PrepareKeepsCells(self, seed, width, height, is_perfect, heart, entry, exit) ==
  LET p == Prepared(seed, width, height, is_perfect, heart, entry, exit)
  IN  [p EXCEPT !.gen.available_cells =
                   IF self.maze_map # << >> THEN @ \cap self.available_cells
                   ELSE @]

\* a variant of _prepare_data that leaves out lines 26-27 on a generator
\* that has drawn before: maze_random goes on from its state
PrepareKeepsRandom(self, seed, width, height, is_perfect, heart, entry, exit) ==
  LET p == Prepared(seed, width, height, is_perfect, heart, entry, exit)
  IN  [p EXCEPT !.gen.maze_random = IF self.draws > 0 THEN self.maze_random
                                    ELSE @]

\* _prepare_data on the generator self: every field of self is assigned
\* anew, nothing of self is read
_prepare_data(self, seed, width, height, is_perfect, heart, entry, exit) ==
  Prepared(seed, width, height, is_perfect, heart, entry, exit)

---------------------------------------------------------------------------
(* MazeGenerator: the walk.  A state s of a call is the record              *)
(* [maze, gen, f]: the Maze object, the MazeGenerator's fields and the      *)
(* frame (locals and position) of the call.                                 *)

\* raise: the frame ends with the exception e
Raise(s, e) == [s EXCEPT !.f.pc = "raised", !.f.error = e]

\* maze.map and self.maze_map are one list object while maze.alias holds:
\* what is written to the one is read from the other
Sync(s) == IF s.maze.alias THEN [s EXCEPT !.maze.map = s.gen.maze_map] ELSE s

\* _choose_random_cell: the cell drawn and the generator after it
_choose_random_cell(g) ==
  LET cell == ChoiceOfSet(g.maze_random, g.available_cells)
  IN  [cell |-> cell,
       gen |-> [g EXCEPT !.maze_random = NextRandom(g.maze_random),
                         !.draws = g.draws + 1,
                         !.available_cells = g.available_cells \ {cell}]]

\* a variant of _select_random_neighbor without line 387: a neighbour that
\* is neither Unvisited nor Pending is not appended to the path
SelectNoAppend(g, current_pos, path) ==
  LET nb == At(g.neighbors, current_pos)
      c  == Choice(g.maze_random, nb)
      g1 == [g EXCEPT !.maze_random = NextRandom(g.maze_random),
                      !.draws = g.draws + 1]
  IN  IF nb = << >>
      THEN [current_pos |-> current_pos, gen |-> g, path |-> path,
            error |-> IndexError]
      ELSE IF ~Truthy(At(g.maze_map, c))
      THEN [current_pos |-> c,
            gen |-> [g1 EXCEPT !.maze_map = Put(g.maze_map, c, PENDING),
                               !.available_cells = g.available_cells \ {c}],
            path |-> Append(path, c),
            error |-> IF c \in g.available_cells THEN "" ELSE KeyError]
      ELSE IF At(g.maze_map, c) = PENDING
      THEN [current_pos |-> c,
            gen |-> [g1 EXCEPT !.maze_map = Put(g.maze_map, c, LOOP)],
            path |-> path, error |-> ""]
      ELSE [current_pos |-> c, gen |-> g1, path |-> path, error |-> ""]

\* _select_random_neighbor: the neighbour drawn, the generator, the path and
\* the error raised ("" if none)
_select_random_neighbor(g, current_pos, path) ==
  LET nb == At(g.neighbors, current_pos)
      c  == Choice(g.maze_random, nb)
      g1 == [g EXCEPT !.maze_random = NextRandom(g.maze_random),
                      !.draws = g.draws + 1]
  IN  IF nb = << >>
      THEN [current_pos |-> current_pos, gen |-> g, path |-> path,
            error |-> IndexError]
      ELSE IF ~Truthy(At(g.maze_map, c))
      THEN [current_pos |-> c,
            gen |-> [g1 EXCEPT !.maze_map = Put(g.maze_map, c, PENDING),
                               !.available_cells = g.available_cells \ {c}],
            path |-> Append(path, c),
            error |-> IF c \in g.available_cells THEN "" ELSE KeyError]
      ELSE IF At(g.maze_map, c) = PENDING
      THEN [current_pos |-> c,
            gen |-> [g1 EXCEPT !.maze_map = Put(g.maze_map, c, LOOP)],
            path |-> path, error |-> ""]
      ELSE [current_pos |-> c, gen |-> g1, path |-> Append(path, c),
            error |-> ""]

\* a variant of _earase_loop that also pops the earlier occurrence of
\* current_pos
EraseThrough(g, current_pos, path) ==
  LET at == { k \in 1 .. Len(path) : path[k] = current_pos }
      keep == IF at = {} THEN 0
              ELSE (CHOOSE k \in at : \A j \in at : j <= k) - 1
      popped == { path[k] : k \in (keep + 1) .. Len(path) }
  IN  [gen |-> [g EXCEPT
                  !.maze_map = [k \in DOMAIN g.maze_map |->
                                  IF (k - 1) \in popped THEN UNVISITED
                                  ELSE g.maze_map[k]],
                  !.available_cells = g.available_cells \cup popped],
       path |-> SubSeq(path, 1, keep)]

\* a variant of _earase_loop without line 360: the popped cells keep their
\* value
EraseKeepsValue(g, current_pos, path) ==
  LET at == { k \in 1 .. Len(path) : path[k] = current_pos }
      keep == IF at = {} THEN 0
              ELSE CHOOSE k \in at : \A j \in at : j <= k
      popped == { path[k] : k \in (keep + 1) .. Len(path) }
  IN  [gen |-> [g EXCEPT !.available_cells = g.available_cells \cup popped],
       path |-> SubSeq(path, 1, keep)]

\* a variant of _earase_loop that pops nothing: the loop stays in the path
KeepLoop(g, current_pos, path) == [gen |-> g, path |-> path]

\* _earase_loop: cells are popped, reset and made available again until
\* the path ends at current_pos (or is empty); keep is the length left
_earase_loop(g, current_pos, path) ==
  LET at == { k \in 1 .. Len(path) : path[k] = current_pos }
      keep == IF at = {} THEN 0
              ELSE CHOOSE k \in at : \A j \in at : j <= k
      popped == { path[k] : k \in (keep + 1) .. Len(path) }
  IN  [gen |-> [g EXCEPT
                  !.maze_map = [k \in DOMAIN g.maze_map |->
                                  IF (k - 1) \in popped THEN UNVISITED
                                  ELSE g.maze_map[k]],
                  !.available_cells = g.available_cells \cup popped],
       path |-> SubSeq(path, 1, keep)]

\* no direction: the two cells are not next to each other
NODIR == 4

\* one comparison of _derive_path_directions
DirectionOf(previous, cell, width) ==
  IF previous + 1 = cell THEN EAST
  ELSE IF previous - 1 = cell THEN WEST
  ELSE IF previous + width = cell THEN SOUTH
  ELSE IF previous - width = cell THEN NORTH
  ELSE NODIR

\* _derive_path_directions: one direction for each pair of consecutive
\* cells that are next to each other
_derive_path_directions(path, width) ==
  SelectSeq([k \in 1 .. (Len(path) - 1) |->
               DirectionOf(path[k], path[k + 1], width)],
            LAMBDA d : d # NODIR)

\* a variant of _update_walls_for_passage that leaves out line 344: the
\* wall is cleared on the side of previous only
PassageOneSide(maze_map, previous, current, direction) ==
  LET m1 == Put(maze_map, previous,
                ClearBit(At(maze_map, previous), direction))
  IN  Put(m1, current, IF At(m1, current) = PENDING THEN WALLS
                       ELSE At(m1, current))

\* _update_walls_for_passage: both sides of the wall are cleared
_update_walls_for_passage(maze_map, previous, current, direction) ==
  LET m1 == Put(maze_map, previous,
                ClearBit(At(maze_map, previous), direction))
      current_cell == IF At(m1, current) = PENDING THEN WALLS
                      ELSE At(m1, current)
  IN  Put(m1, current, ClearBit(current_cell, opposite(direction)))

RECURSIVE StoreRange(_, _, _, _, _)
\* the loop of _store_valid_path over the directions lo .. hi, in order
StoreRange(maze_map, path, directions, lo, hi) ==
  IF lo > hi THEN maze_map
  ELSE IF lo = hi
  THEN _update_walls_for_passage(maze_map, path[lo], path[lo + 1],
                                 directions[lo])
  ELSE CHOOSE r \in
         { StoreRange(m, path, directions, ((lo + hi) \div 2) + 1, hi) :
             m \in { StoreRange(maze_map, path, directions, lo,
                                (lo + hi) \div 2) } } : TRUE

\* a variant of _store_valid_path with 0 for 0xF at line 279: the first
\* cell of the path starts with no wall
StoreFirstOpen(g, path) ==
  LET m0 == Put(g.maze_map, path[1], 0)
      directions == _derive_path_directions(path, g.width)
  IN  [g EXCEPT !.maze_map = StoreRange(m0, path, directions, 1,
                                        Len(directions)),
                !.found = g.found \cup { path[k] : k \in 1 .. Len(path) }]

\* a variant of _store_valid_path that keeps only the cells of the last path
\* in the committed set
StoreForgets(g, path) ==
  LET m0 == Put(g.maze_map, path[1], WALLS)
      directions == _derive_path_directions(path, g.width)
  IN  [g EXCEPT !.maze_map = StoreRange(m0, path, directions, 1,
                                        Len(directions)),
                !.found = { path[k] : k \in 1 .. Len(path) }]

\* _store_valid_path: the walls along the path open, its cells are found
_store_valid_path(g, path) ==
  LET m0 == Put(g.maze_map, path[1], WALLS)
      directions == _derive_path_directions(path, g.width)
  IN  [g EXCEPT !.maze_map = StoreRange(m0, path, directions, 1,
                                        Len(directions)),
                !.found = g.found \cup { path[k] : k \in 1 .. Len(path) }]

\* end_blocks: the masks with exactly one bit clear
end_blocks == { 7, 11, 13, 14 }

\* a variant of the body of the loop of _create_non_perfect_maze in which
\* the new opening of the dead end replaces the one it had
NonPerfectReplaces(g, i) ==
  IF At(g.maze_map, i) \in end_blocks
  THEN LET new_connection == Choice(g.maze_random, At(g.neighbors, i))
           direction == _derive_path_directions(<< i, new_connection >>,
                                                g.width)[1]
           closed == Put(g.maze_map, i, WALLS)
       IN  [g EXCEPT !.maze_random = NextRandom(g.maze_random),
                     !.draws = g.draws + 1,
                     !.maze_map = _update_walls_for_passage(
                                    closed, i, new_connection, direction)]
  ELSE g

\* a variant of the turn that takes every cell with an open wall and a
\* closed one, not only the single-opening ones
NonPerfectAnyCell(g, i) ==
  IF At(g.maze_map, i) \notin { 0, WALLS }
  THEN LET new_connection == Choice(g.maze_random, At(g.neighbors, i))
           direction == _derive_path_directions(<< i, new_connection >>,
                                                g.width)[1]
       IN  [g EXCEPT !.maze_random = NextRandom(g.maze_random),
                     !.draws = g.draws + 1,
                     !.maze_map = _update_walls_for_passage(
                                    g.maze_map, i, new_connection, direction)]
  ELSE g

\* one turn of the loop of _create_non_perfect_maze, at cell i
NonPerfectAt(g, i) ==
  IF At(g.maze_map, i) \in end_blocks
  THEN LET new_connection == Choice(g.maze_random, At(g.neighbors, i))
           direction == _derive_path_directions(<< i, new_connection >>,
                                                g.width)[1]
       IN  [g EXCEPT !.maze_random = NextRandom(g.maze_random),
                     !.draws = g.draws + 1,
                     !.maze_map = _update_walls_for_passage(
                                    g.maze_map, i, new_connection, direction)]
  ELSE g

RECURSIVE NonPerfectRange(_, _, _)
\* the loop of _create_non_perfect_maze over the cells lo .. hi, in order
NonPerfectRange(g, lo, hi) ==
  IF lo > hi THEN g
  ELSE IF lo = hi THEN NonPerfectAt(g, lo)
  ELSE CHOOSE r \in
         { NonPerfectRange(m, ((lo + hi) \div 2) + 1, hi) :
             m \in { NonPerfectRange(g, lo, (lo + hi) \div 2) } } : TRUE

_create_non_perfect_maze(g) == NonPerfectRange(g, 0, Len(g.maze_map) - 1)

HexDigits ==
  << "0", "1", "2", "3", "4", "5", "6", "7", "8", "9",
     "A", "B", "C", "D", "E", "F" >>

\* a variant of the format of a cell: f"{v}", the decimal digits, for the
\* values 0 .. 99
Decimal(v) ==
  IF v < 10 THEN << HexDigits[v + 1] >>
  ELSE << HexDigits[(v \div 10) + 1], HexDigits[(v % 10) + 1] >>

RECURSIVE Hex(_)
\* f"{v:X}" as the sequence of its characters
Hex(v) == IF v < 0 THEN << "-" >> \o Hex(0 - v)
          ELSE IF v < 16 THEN << HexDigits[v + 1] >>
          ELSE Hex(v \div 16) \o << HexDigits[(v % 16) + 1] >>

RECURSIVE HexRow(_, _, _)
\* "".join(row) for the cells first .. last
HexRow(maze_map, first, last) ==
  IF first > last THEN << >>
  ELSE Hex(At(maze_map, first)) \o HexRow(maze_map, first + 1, last)

RECURSIVE JoinLines(_)
\* "\n".join(lines), as the sequence of its characters
JoinLines(lines) ==
  IF lines = << >> THEN << >>
  ELSE IF Len(lines) = 1 THEN lines[1]
  ELSE lines[1] \o << "\n" >> \o JoinLines(Tail(lines))

\* get_maze_str: the string, as the sequence of its characters
get_maze_str(g) ==
  JoinLines(
    [y \in 1 .. (IF g.height > 0 THEN g.height ELSE 0) |->
       HexRow(g.maze_map, (y - 1) * g.width, (y - 1) * g.width + g.width - 1)])

---------------------------------------------------------------------------
(* The two generation functions, one step of their bodies at a time.       *)
(* f.pc is the position in the body: "call" the first line, "outer" the    *)
(* test of `while self.available_cells`, "inner" the test of                *)
(* `while not path_found`; "returned", "raised", "yield_loop",              *)
(* "yield_final" and "exhausted" are where the caller has control again.    *)

\* the frame of a call that has not started; tree records the list as it is
\* when `while self.available_cells` ends, before the augmentation pass
NewFrame(fn, seed, visualize) ==
  [ fn |-> fn, pc |-> "call", error |-> "", path |-> << >>,
    current_pos |-> 0, i |-> 0, path_found |-> FALSE, seed |-> seed,
    visualize |-> visualize, ret |-> << >>, tree |-> << >> ]

\* no call made yet
NoFrame == [NewFrame("", 0, FALSE) EXCEPT !.pc = "idle"]

\* the walk-step counter has reached the bound of the model
AtCap(s) == s.f.pc = "inner" /\ ~s.f.path_found /\ s.f.i >= MaxSteps

\* create_maze_instant, lines 144-153: setup and the root of the tree
InstantBegin(s) ==
  LET p  == _prepare_data(s.gen, s.f.seed, s.maze.width, s.maze.height,
                          s.maze.is_perfect, s.maze.heart,
                          s.maze.entry, s.maze.exit)
      s0 == [s EXCEPT !.gen = p.gen, !.maze.alias = FALSE]
      c  == _choose_random_cell(p.gen)
  IN  IF p.error # "" THEN Raise(s0, p.error)
      ELSE IF p.gen.available_cells = {} THEN Raise(s0, IndexError)
      ELSE [s0 EXCEPT
              !.gen = [c.gen EXCEPT
                         !.maze_map = Put(c.gen.maze_map, c.cell, WALLS),
                         !.found = c.gen.found \cup {c.cell}],
              !.f.path_found = FALSE, !.f.path = << >>, !.f.i = 0,
              !.f.pc = "outer"]

\* create_maze_instant, lines 155-162 and 177-181: the next walk starts, or
\* the run ends with the augmentation pass and the returned string
InstantOuter(s) ==
  IF s.gen.available_cells # {}
  THEN LET c == _choose_random_cell(s.gen)
       IN  [s EXCEPT
              !.gen = [c.gen EXCEPT
                         !.maze_map = Put(c.gen.maze_map, c.cell, PENDING)],
              !.f.path = Append(s.f.path, c.cell),
              !.f.current_pos = c.cell,
              !.f.path_found = FALSE,
              !.f.pc = "inner"]
  ELSE LET g == IF ~s.gen.is_perfect THEN _create_non_perfect_maze(s.gen)
                ELSE s.gen
       IN  [s EXCEPT !.gen = g, !.maze.alias = TRUE, !.maze.map = g.maze_map,
                     !.f.tree = s.gen.maze_map,
                     !.f.ret = get_maze_str(g), !.f.pc = "returned"]

\* create_maze_instant, lines 163-175: one walk step, or the commit of the
\* finished walk
InstantInner(s) ==
  IF ~s.f.path_found
  THEN LET r == _select_random_neighbor(s.gen, s.f.current_pos, s.f.path)
           v == At(r.gen.maze_map, r.current_pos)
           e == _earase_loop(
                  [r.gen EXCEPT !.maze_map =
                                   Put(r.gen.maze_map, r.current_pos, PENDING)],
                  r.current_pos, r.path)
       IN  IF r.error # ""
           THEN Raise([s EXCEPT !.gen = r.gen, !.f.path = r.path], r.error)
           ELSE [s EXCEPT
                   !.gen = IF v = LOOP THEN e.gen ELSE r.gen,
                   !.f.path = IF v = LOOP THEN e.path ELSE r.path,
                   !.f.current_pos = r.current_pos,
                   !.f.path_found = (v # LOOP /\ v # PENDING),
                   !.maze.alias = TRUE,
                   !.f.i = s.f.i + 1]
  ELSE [s EXCEPT !.gen = _store_valid_path(s.gen, s.f.path),
                 !.f.path = << >>,
                 !.f.pc = "outer"]

\* one step of the body of create_maze_instant
InstantStep(s) ==
  IF AtCap(s) THEN s
  ELSE Sync(CASE s.f.pc = "call"  -> InstantBegin(s)
              [] s.f.pc = "outer" -> InstantOuter(s)
              [] s.f.pc = "inner" -> InstantInner(s)
              [] OTHER -> s)

\* create_maze_instant has returned or raised, or the model's bound is hit
InstantHalted(s) == s.f.pc \in { "returned", "raised" } \/ AtCap(s)

RECURSIVE InstantRun(_, _)
\* at most n steps of the body: the first half of them, then the rest from
\* the state m they lead to
InstantRun(s, n) ==
  IF n = 0 \/ InstantHalted(s) THEN s
  ELSE IF n = 1 THEN InstantStep(s)
  ELSE CHOOSE r \in { InstantRun(m, n - (n \div 2)) :
                       m \in { InstantRun(s, n \div 2) } } : TRUE

\* the steps a run can take within the bound on i
Fuel(s) == MaxSteps + 2 * Abs(s.maze.width * s.maze.height) + 4

\* create_maze, lines 201-210
GeneratorBegin(s) ==
  LET p  == _prepare_data(s.gen, s.f.seed, s.maze.width, s.maze.height,
                          s.maze.is_perfect, s.maze.heart,
                          s.maze.entry, s.maze.exit)
      s0 == [s EXCEPT !.gen = p.gen, !.maze.alias = FALSE]
      c  == _choose_random_cell(p.gen)
  IN  IF p.error # "" THEN Raise(s0, p.error)
      ELSE IF p.gen.available_cells = {} THEN Raise(s0, IndexError)
      ELSE [s0 EXCEPT
              !.gen = [c.gen EXCEPT
                         !.maze_map = Put(c.gen.maze_map, c.cell, WALLS),
                         !.found = c.gen.found \cup {c.cell}],
              !.f.path_found = FALSE, !.f.path = << >>, !.f.i = 0,
              !.f.pc = "outer"]

\* a variant of the end of create_maze that leaves out lines 236-237, the
\* augmentation pass
GeneratorOuterNoAugment(s) ==
  IF s.gen.available_cells # {}
  THEN LET c == _choose_random_cell(s.gen)
       IN  [s EXCEPT
              !.gen = [c.gen EXCEPT
                         !.maze_map = Put(c.gen.maze_map, c.cell, PENDING)],
              !.f.path = Append(s.f.path, c.cell),
              !.f.current_pos = c.cell,
              !.f.path_found = FALSE,
              !.f.pc = "inner"]
  ELSE [s EXCEPT !.maze.alias = TRUE, !.maze.map = s.gen.maze_map,
                 !.f.tree = s.gen.maze_map,
                 !.f.pc = "yield_final"]

\* create_maze, lines 212-219 and 236-240
GeneratorOuter(s) ==
  IF s.gen.available_cells # {}
  THEN LET c == _choose_random_cell(s.gen)
       IN  [s EXCEPT
              !.gen = [c.gen EXCEPT
                         !.maze_map = Put(c.gen.maze_map, c.cell, PENDING)],
              !.f.path = Append(s.f.path, c.cell),
              !.f.current_pos = c.cell,
              !.f.path_found = FALSE,
              !.f.pc = "inner"]
  ELSE LET g == IF ~s.gen.is_perfect THEN _create_non_perfect_maze(s.gen)
                ELSE s.gen
       IN  [s EXCEPT !.gen = g, !.maze.alias = TRUE, !.maze.map = g.maze_map,
                     !.f.tree = s.gen.maze_map,
                     !.f.pc = "yield_final"]

\* a variant of lines 220-234 that yields only when the walk has reached a
\* Committed cell
InnerYieldsPerWalk(s) ==
  IF ~s.f.path_found
  THEN LET r == _select_random_neighbor(s.gen, s.f.current_pos, s.f.path)
           v == At(r.gen.maze_map, r.current_pos)
           e == _earase_loop(
                  [r.gen EXCEPT !.maze_map =
                                   Put(r.gen.maze_map, r.current_pos, PENDING)],
                  r.current_pos, r.path)
           i == s.f.i + 1
       IN  IF r.error # ""
           THEN Raise([s EXCEPT !.gen = r.gen, !.f.path = r.path], r.error)
           ELSE [s EXCEPT
                   !.gen = IF v = LOOP THEN e.gen ELSE r.gen,
                   !.f.path = IF v = LOOP THEN e.path ELSE r.path,
                   !.f.current_pos = r.current_pos,
                   !.f.path_found = (v # LOOP /\ v # PENDING),
                   !.maze.alias = TRUE,
                   !.f.i = i,
                   !.f.pc = IF s.f.visualize /\ v # LOOP /\ v # PENDING
                            THEN "yield_loop" ELSE "inner"]
  ELSE [s EXCEPT !.gen = _store_valid_path(s.gen, s.f.path),
                 !.f.path = << >>,
                 !.f.pc = "outer"]

\* create_maze, lines 220-234: one walk step and its yield, or the commit
GeneratorInner(s) ==
  IF ~s.f.path_found
  THEN LET r == _select_random_neighbor(s.gen, s.f.current_pos, s.f.path)
           v == At(r.gen.maze_map, r.current_pos)
           e == _earase_loop(
                  [r.gen EXCEPT !.maze_map =
                                   Put(r.gen.maze_map, r.current_pos, PENDING)],
                  r.current_pos, r.path)
           i == s.f.i + 1
       IN  IF r.error # ""
           THEN Raise([s EXCEPT !.gen = r.gen, !.f.path = r.path], r.error)
           ELSE [s EXCEPT
                   !.gen = IF v = LOOP THEN e.gen ELSE r.gen,
                   !.f.path = IF v = LOOP THEN e.path ELSE r.path,
                   !.f.current_pos = r.current_pos,
                   !.f.path_found = (v # LOOP /\ v # PENDING),
                   !.maze.alias = TRUE,
                   !.f.i = i,
                   !.f.pc = IF s.f.visualize
                               /\ i % s.gen.visualisation_tempo = 0
                            THEN "yield_loop" ELSE "inner"]
  ELSE [s EXCEPT !.gen = _store_valid_path(s.gen, s.f.path),
                 !.f.path = << >>,
                 !.f.pc = "outer"]

\* one step of the body of create_maze
GeneratorStep(s) ==
  IF AtCap(s) THEN s
  ELSE Sync(CASE s.f.pc = "call"  -> GeneratorBegin(s)
              [] s.f.pc = "outer" -> GeneratorOuter(s)
              [] s.f.pc = "inner" -> GeneratorInner(s)
              [] OTHER -> s)

\* the sequence is suspended at a yield or finished, or the bound is hit
GeneratorHalted(s) ==
  s.f.pc \in { "yield_loop", "yield_final", "exhausted", "raised" }
  \/ AtCap(s)

RECURSIVE GeneratorRun(_, _)
\* at most n steps of the body, up to the next yield
GeneratorRun(s, n) ==
  IF n = 0 \/ GeneratorHalted(s) THEN s
  ELSE IF n = 1 THEN GeneratorStep(s)
  ELSE CHOOSE r \in { GeneratorRun(m, n - (n \div 2)) :
                       m \in { GeneratorRun(s, n \div 2) } } : TRUE

\* next(sequence): the body resumes after the yield it is suspended at
Resume(s) ==
  CASE s.f.pc = "yield_loop"  -> [s EXCEPT !.f.pc = "inner"]
    [] s.f.pc = "yield_final" -> [s EXCEPT !.f.pc = "exhausted"]
    [] OTHER -> s

---------------------------------------------------------------------------
(* PathFinder.  The fields of the finder are the record fd; the locals of   *)
(* a search are the record b.                                               *)

\* a variant of PathFinder._prepare_data that closes, in the list it is
\* given, the cells that have no wall
FinderPrepareCloses(m) ==
  [ entry |-> m.entry, exit |-> m.exit, height |-> m.height,
    width |-> m.width,
    maze |-> [k \in 1 .. Len(m.map) |->
                IF m.map[k] = 0 THEN WALLS ELSE m.map[k]] ]

\* PathFinder._prepare_data
FinderPrepare(m) ==
  [ entry |-> m.entry, exit |-> m.exit, height |-> m.height,
    width |-> m.width, maze |-> m.map ]

\* the fields of a PathFinder before any call
NoFinder ==
  [ entry |-> 0, exit |-> 0, height |-> 0, width |-> 0, maze |-> << >> ]

\* a variant of _collect_accessible_neighbors that yields the cell to the
\* east whatever the wall bit is
CollectThroughWalls(val, width, current) ==
  (IF ~BitSet(val, NORTH) THEN << current - width >> ELSE << >>)
  \o (IF ~BitSet(val, SOUTH) THEN << current + width >> ELSE << >>)
  \o << current + 1 >>
  \o (IF ~BitSet(val, WEST) THEN << current - 1 >> ELSE << >>)

\* _collect_accessible_neighbors: the cells yielded, in the order north,
\* south, east, west, for the mask val of the current cell
_collect_accessible_neighbors(val, width, current) ==
  (IF ~BitSet(val, NORTH) THEN << current - width >> ELSE << >>)
  \o (IF ~BitSet(val, SOUTH) THEN << current + width >> ELSE << >>)
  \o (IF ~BitSet(val, EAST) THEN << current + 1 >> ELSE << >>)
  \o (IF ~BitSet(val, WEST) THEN << current - 1 >> ELSE << >>)

\* d[k] = v on a dict
DictPut(d, k, v) == [x \in DOMAIN d \cup {k} |-> IF x = k THEN v ELSE d[x]]

\* the locals of a search before the loop
NewSearch(fn, fd) ==
  [ fn |-> fn, pc |-> "call", error |-> "",
    maze_connections |-> [x \in {} |-> 0],
    queue |-> << fd.entry >>, current |-> fd.entry,
    visited |-> {fd.entry}, path |-> << >>,
    dequeued |-> << >>, yields |-> << >>,
    str_path |-> << >>, str_done |-> FALSE ]

\* no search made yet
NoSearch == [NewSearch("", NoFinder) EXCEPT !.pc = "idle"]

RECURSIVE Expand(_, _, _)
\* the for loop over the neighbours nbs[k..] of b.current
Expand(b, nbs, k) ==
  IF k > Len(nbs) THEN b
  ELSE IF nbs[k] \notin b.visited
  THEN Expand([b EXCEPT !.queue = Append(b.queue, nbs[k]),
                        !.visited = b.visited \cup {nbs[k]},
                        !.maze_connections =
                           DictPut(b.maze_connections, nbs[k], b.current)],
              nbs, k + 1)
  ELSE Expand(b, nbs, k + 1)

\* a variant with queue.pop() for queue.popleft(): the newest cell first
PopRight(b) ==
  [b EXCEPT !.current = b.queue[Len(b.queue)],
            !.queue = SubSeq(b.queue, 1, Len(b.queue) - 1),
            !.dequeued = Append(b.dequeued, b.queue[Len(b.queue)])]

\* queue.popleft()
PopLeft(b) == [b EXCEPT !.current = Head(b.queue), !.queue = Tail(b.queue),
                        !.dequeued = Append(b.dequeued, Head(b.queue))]

\* a variant of the loop body without the break of lines 46-47 / 93-94
AfterDequeueNoBreak(fd, b) ==
  IF ~PyInRange(fd.maze, b.current)
  THEN [b EXCEPT !.pc = "raised", !.error = IndexError]
  ELSE Expand(b,
              _collect_accessible_neighbors(PyGet(fd.maze, b.current),
                                            fd.width, b.current),
              1)

\* the body of the while loop after the dequeue: the break at the exit, or
\* the neighbours of the current cell are enqueued
AfterDequeue(fd, b) ==
  IF b.current = fd.exit THEN [b EXCEPT !.pc = "break"]
  ELSE IF ~PyInRange(fd.maze, b.current)
  THEN [b EXCEPT !.pc = "raised", !.error = IndexError]
  ELSE Expand(b,
              _collect_accessible_neighbors(PyGet(fd.maze, b.current),
                                            fd.width, b.current),
              1)

RECURSIVE BackFrom(_, _, _)
\* the loop `while current != self.entry`: the cells appended from current
\* on, up to a cell that has no predecessor
BackFrom(maze_connections, entry, current) ==
  IF current = entry \/ current \notin DOMAIN maze_connections THEN << >>
  ELSE << current >> \o BackFrom(maze_connections, entry,
                                 maze_connections[current])

RECURSIVE BackFails(_, _, _)
\* the loop `while current != self.entry` reads maze_connections at a cell
\* that has no predecessor
BackFails(maze_connections, entry, current) ==
  /\ current # entry
  /\ \/ current \notin DOMAIN maze_connections
     \/ BackFails(maze_connections, entry, maze_connections[current])

\* list.reverse()
Reverse(lst) == [k \in 1 .. Len(lst) |-> lst[Len(lst) + 1 - k]]

\* a variant of lines 54-61 / 102-109 without path.append(self.entry)
ReconstructNoEntry(fd, b) ==
  LET back == BackFrom(b.maze_connections, fd.entry, b.current)
  IN  IF BackFails(b.maze_connections, fd.entry, b.current)
      THEN [b EXCEPT !.pc = "raised", !.error = KeyError]
      ELSE [b EXCEPT !.path = Reverse(back), !.pc = "rebuilt"]

\* lines 54-61 / 102-109: the path is rebuilt from b.current back to entry
Reconstruct(fd, b) ==
  LET back == BackFrom(b.maze_connections, fd.entry, b.current)
  IN  IF BackFails(b.maze_connections, fd.entry, b.current)
      THEN [b EXCEPT !.pc = "raised", !.error = KeyError]
      ELSE [b EXCEPT !.path = Reverse(Append(back, fd.entry)),
                     !.pc = "rebuilt"]

\* one turn of the while loop of find_path_instant
InstantSearchStep(fd, b) ==
  IF b.pc # "call" THEN b
  ELSE IF b.queue = << >> THEN [b EXCEPT !.pc = "break"]
  ELSE AfterDequeue(fd, PopLeft(b))

RECURSIVE InstantSearchRun(_, _, _)
\* at most n turns of the while loop
InstantSearchRun(fd, b, n) ==
  IF n = 0 \/ b.pc # "call" THEN b
  ELSE IF n = 1 THEN InstantSearchStep(fd, b)
  ELSE CHOOSE r \in { InstantSearchRun(fd, m, n - (n \div 2)) :
                       m \in { InstantSearchRun(fd, b, n \div 2) } } : TRUE

\* find_path_instant(maze): the locals when it returns (pc "returned", the
\* path returned in path) or raises; every index -len .. len-1 of the list
\* is dequeued at most once
find_path_instant(m) ==
  LET fd == FinderPrepare(m)
      b  == InstantSearchRun(fd, NewSearch("find_path_instant", fd),
                             2 * Len(fd.maze) + 2)
      r  == Reconstruct(fd, b)
  IN  IF b.pc = "raised" THEN b
      ELSE IF r.pc = "raised" THEN r
      ELSE [r EXCEPT !.pc = "returned"]

\* find_path, the dequeue and `yield [current]` of lines 89-91, or lines
\* 102-110 when the queue is empty
SearchLoop(fd, b) ==
  IF b.queue # << >>
  THEN LET d == PopLeft(b)
       IN  [d EXCEPT !.pc = "yield_cell",
                     !.yields = Append(d.yields, << d.current >>)]
  ELSE LET r == Reconstruct(fd, b)
       IN  IF r.pc = "raised" THEN r
           ELSE [r EXCEPT !.pc = "yield_path",
                          !.yields = Append(r.yields, r.path)]

\* next(sequence) for find_path: the locals at the next yield
SearchAdvance(fd, b) ==
  CASE b.pc = "call" -> SearchLoop(fd, b)
    [] b.pc = "yield_cell" ->
         LET a == AfterDequeue(fd, b)
             r == Reconstruct(fd, a)
         IN  IF a.pc = "raised" THEN a
             ELSE IF a.pc = "break"
             THEN (IF r.pc = "raised" THEN r
                   ELSE [r EXCEPT !.pc = "yield_path",
                                  !.yields = Append(r.yields, r.path)])
             ELSE SearchLoop(fd, a)
    [] b.pc = "yield_path" -> [b EXCEPT !.pc = "exhausted"]
    [] OTHER -> b

\* a variant of get_str_path with the letters of lines 159 and 161
\* exchanged
StrPathFlipped(path, width) ==
  SelectSeq([k \in 1 .. (Len(path) - 1) |->
               IF path[k] + 1 = path[k + 1] THEN "E"
               ELSE IF path[k] - 1 = path[k + 1] THEN "W"
               ELSE IF path[k] + width = path[k + 1] THEN "N"
               ELSE IF path[k] - width = path[k + 1] THEN "S"
               ELSE ""],
            LAMBDA c : c # "")

\* get_str_path: one letter for each pair of consecutive cells that are
\* next to each other
get_str_path(path, width) ==
  SelectSeq([k \in 1 .. (Len(path) - 1) |->
               IF path[k] + 1 = path[k + 1] THEN "E"
               ELSE IF path[k] - 1 = path[k + 1] THEN "W"
               ELSE IF path[k] + width = path[k + 1] THEN "S"
               ELSE IF path[k] - width = path[k + 1] THEN "N"
               ELSE ""],
            LAMBDA c : c # "")

---------------------------------------------------------------------------
(* Maze.                                                                   *)

\* Maze.__init__; alias tells whether map is the generator's list object
MazeInit(width, height, entry, exit, is_perfect, heart) ==
  [ height |-> height, width |-> width,
    entry |-> entry[2] * width + entry[1],
    exit |-> exit[2] * width + exit[1],
    is_perfect |-> is_perfect, heart |-> heart,
    map |-> << >>, alias |-> FALSE ]

---------------------------------------------------------------------------
(* The state and the caller's operations.                                  *)

VARIABLES
  maze,    \* the Maze object
  gen,     \* the fields of the MazeGenerator
  run,     \* the frame of the latest generation call
  finder,  \* the fields of the PathFinder
  search,  \* the locals of the latest path search
  cli,     \* the position and the locals of main, for a run of the program
  other,   \* a second Maze object with the sequences a caller runs on it
  vis,     \* the fields of the MazeVisualizer
  player   \* the fields of the Player

vars == << maze, gen, run, finder, search, cli, other, vis, player >>

\* the objects that only some callers make
aside == << other, vis, player >>

Seeds == 0 .. MaxSeed
Tempos == 1 .. MaxTempo

\* the Maze objects of the model, as the arguments of Maze(...):
\* << width, height, entry, exit, is_perfect, heart >>
Mazes ==
  \* the sign alone: free entry and exit
  { << 9, 7, << 0, 0 >>, << 8, 6 >>, TRUE, FALSE >>,
    << 9, 7, << 0, 0 >>, << 4, 4 >>, FALSE, FALSE >> }
  \* entry equal to exit; a coordinate out of range that wraps to a free cell
  \cup { << 9, 7, << 0, 0 >>, << 0, 0 >>, TRUE, FALSE >>,
         << 9, 7, << -1, 0 >>, << 8, 6 >>, FALSE, FALSE >>,
         << 9, 7, << 0, 0 >>, << 9, 0 >>, TRUE, FALSE >> }
  \* an index past either end of the list
  \cup { << 9, 7, << 0, 7 >>, << 8, 6 >>, TRUE, FALSE >>,
         << 9, 7, << 0, 0 >>, << 0, -8 >>, TRUE, FALSE >> }
  \* entry or exit on a cell of the sign
  \cup { << 9, 7, << 3, 3 >>, << 8, 6 >>, TRUE, FALSE >>,
         << 9, 7, << 0, 0 >>, << 5, 3 >>, FALSE, FALSE >> }
  \* the heart: a layout whose free cells are connected, one where they are
  \* not, and entry or exit outside the heart
  \cup { << 9, 11, << 4, 3 >>, << 4, 9 >>, p, TRUE >> : p \in BOOLEAN }
  \cup { << 9, 7, << 4, 2 >>, << 4, 4 >>, TRUE, TRUE >>,
         << 9, 11, << 0, 0 >>, << 4, 9 >>, TRUE, TRUE >>,
         << 9, 11, << 4, 3 >>, << 8, 10 >>, FALSE, TRUE >> }
  \* grids too small for the sign
  \cup { << wh[1], wh[2], << 0, 0 >>, << 5, 5 >>, TRUE, h >> :
           wh \in { << 8, 7 >>, << 9, 6 >>, << 8, 6 >> }, h \in BOOLEAN }
  \cup { << 0, 0, << 0, 0 >>, << 0, 0 >>, TRUE, TRUE >> }

\* Maze objects whose map the caller has written, without a generation run:
\* the 2x2 grids with entry 0 and exit 3, every wall bit clear, with only
\* the walls of the border, with every wall closed, and with the one wall
\* between cells 0 and 1 open
ManualMazes ==
  { [MazeInit(2, 2, << 0, 0 >>, << 1, 1 >>, TRUE, FALSE)
       EXCEPT !.map = cells] :
      cells \in { << 0, 0, 0, 0 >>, << 9, 3, 12, 6 >>,
                  << 15, 15, 15, 15 >>, << 13, 7, 15, 15 >> } }

\* main has not been entered: the library is driven by another caller
NoCli == [ pc |-> "none", config |-> << >>, printed |-> "",
           written |-> FALSE, file |-> << >> ]

\* the state the caller sees
World == [maze |-> maze, gen |-> gen, f |-> run]

\* no second Maze object has been made
NoOther ==
  [ maze |-> MazeInit(0, 0, << 0, 0 >>, << 0, 0 >>, TRUE, FALSE),
    f |-> NoFrame, search |-> NoSearch ]

\* no MazeVisualizer has been made
NoVis ==
  [ animation |-> FALSE, path_finding |-> FALSE, maze_draw |-> FALSE,
    paused |-> FALSE, game_mode |-> FALSE, slider_x |-> 1, seed |-> 0,
    shared |-> FALSE, pc |-> "none" ]

\* no Player has been made
NoPlayer ==
  [ current_position |-> 0, taret_position |-> 0, maze_map |-> << >>,
    width |-> 0, path |-> << >> ]

\* no generation is under way
Settled == run.pc \in { "idle", "returned", "raised", "exhausted" }

Init ==
  /\ \/ \E m \in Mazes : maze = MazeInit(m[1], m[2], m[3], m[4], m[5], m[6])
     \/ maze \in ManualMazes
  /\ gen = NoGenerator
  /\ run = NoFrame
  /\ finder = NoFinder
  /\ search = NoSearch
  /\ cli = NoCli
  /\ other = NoOther /\ vis = NoVis /\ player = NoPlayer

\* a stepwise run the caller gives up, suspended early in the walk
Abandoned ==
  run.fn = "create_maze" /\ run.pc = "yield_loop" /\ run.i <= MaxAbandon

\* generator.create_maze_instant(maze, seed)
create_maze_instant ==
  /\ UNCHANGED << cli, aside >>
  /\ Settled \/ Abandoned
  /\ search.pc = "idle"
  /\ UNCHANGED << finder, search >>
  /\ \E seed \in Seeds :
       \E s1 \in { InstantRun(
                       [World EXCEPT !.f = NewFrame("create_maze_instant",
                                                    seed, FALSE)],
                       Fuel(World)) } :
         /\ maze' = s1.maze
         /\ gen' = s1.gen
         /\ run' = s1.f

\* generator.create_maze(maze, seed, visualize): the sequence object is made,
\* its body has not started
create_maze ==
  /\ UNCHANGED << cli, aside >>
  /\ Settled \/ Abandoned
  /\ \E seed \in Seeds, visualize \in BOOLEAN :
       run' = NewFrame("create_maze", seed, visualize)
  /\ search.pc = "idle"
  /\ UNCHANGED << maze, gen, finder, search >>

\* next(sequence)
Advance ==
  /\ UNCHANGED << cli, aside >>
  /\ run.fn = "create_maze"
  /\ run.pc \in { "call", "yield_loop", "yield_final" }
  /\ UNCHANGED << finder, search >>
  /\ \E s1 \in { GeneratorRun(Resume(World), Fuel(World)) } :
       /\ maze' = s1.maze
       /\ gen' = s1.gen
       /\ run' = s1.f

\* generator.visualisation_tempo = tempo, between two advances
SetTempo ==
  /\ UNCHANGED << cli, aside >>
  /\ run.fn = "create_maze"
  /\ run.pc = "yield_loop"
  /\ \E tempo \in Tempos :
       /\ tempo # gen.visualisation_tempo
       /\ gen' = [gen EXCEPT !.visualisation_tempo = tempo]
  /\ UNCHANGED << maze, run, finder, search >>

\* finder.find_path_instant(maze); self.maze is the list object of maze.map,
\* so maze.map is what the finder's list is after the call
FindPathInstant ==
  /\ UNCHANGED << cli, aside >>
  /\ Settled
  /\ search.pc = "idle"
  /\ finder' = FinderPrepare(maze)
  /\ search' = find_path_instant(maze)
  /\ maze' = [maze EXCEPT !.map = finder'.maze]
  /\ UNCHANGED << gen, run >>

\* finder.find_path(maze): the sequence object is made, its body has not
\* started
FindPath ==
  /\ UNCHANGED << cli, aside >>
  /\ Settled
  /\ search.pc = "idle"
  /\ search' = [NoSearch EXCEPT !.fn = "find_path", !.pc = "created"]
  /\ UNCHANGED << maze, gen, run, finder >>

\* next(sequence) for find_path; the first one runs _prepare_data
AdvanceSearch ==
  /\ UNCHANGED << cli, aside >>
  /\ search.fn = "find_path"
  /\ search.pc \in { "created", "yield_cell", "yield_path" }
  /\ \E fd \in { IF search.pc = "created" THEN FinderPrepare(maze)
                  ELSE finder } :
       /\ finder' = fd
       /\ search' = SearchAdvance(fd, IF search.pc = "created"
                                      THEN NewSearch("find_path", fd)
                                      ELSE search)
       /\ maze' = [maze EXCEPT !.map = fd.maze]
  /\ UNCHANGED << gen, run >>

\* finder.get_str_path(path), with the path the finder has handed out
GetStrPath ==
  /\ UNCHANGED << cli, aside >>
  /\ search.pc \in { "returned", "yield_path" }
  /\ ~search.str_done
  /\ search' = [search EXCEPT
                  !.str_path = get_str_path(search.path, finder.width),
                  !.str_done = TRUE]
  /\ UNCHANGED << maze, gen, run, finder >>

Next ==
  \/ create_maze_instant
  \/ create_maze
  \/ Advance
  \/ SetTempo
  \/ FindPathInstant
  \/ FindPath
  \/ AdvanceSearch
  \/ GetStrPath

Spec == Init /\ [][Next]_vars

---------------------------------------------------------------------------
(* The grid as a graph.                                                     *)

\* the obstacle cells of a layout: the '42' sign, and with the heart flag
\* the cells outside the heart
Obstacles(width, height, heart) ==
  { c \in Cells(width, height) :
      \/ c \in Sign42(width, height)
      \/ heart /\ ~InsideHeart(c % width, c \div width, width, height) }

\* the layouts << width, height, heart >> of the Maze objects of the model
Layouts == { << m[1], m[2], m[6] >> : m \in Mazes }

\* the non-obstacle cells of each of these layouts
PlayableOf ==
  [l \in Layouts |-> Cells(l[1], l[2]) \ Obstacles(l[1], l[2], l[3])]

\* the non-obstacle cells of the Maze object
Playable ==
  IF << maze.width, maze.height, maze.heart >> \in Layouts
  THEN PlayableOf[<< maze.width, maze.height, maze.heart >>]
  ELSE Cells(maze.width, maze.height)
         \ Obstacles(maze.width, maze.height, maze.heart)

\* the pairs << a, b, d >>: b is the in-grid neighbour of a in direction d
Adjacent(width, height) ==
  { << c, c + 1, EAST >> :
      c \in { k \in Cells(width, height) : k % width < width - 1 } }
  \cup { << c, c - 1, WEST >> :
           c \in { k \in Cells(width, height) : k % width > 0 } }
  \cup { << c, c + width, SOUTH >> :
           c \in { k \in Cells(width, height) : k \div width < height - 1 } }
  \cup { << c, c - width, NORTH >> :
           c \in { k \in Cells(width, height) : k \div width > 0 } }

\* the wall of cell a in direction d is open in the list m
Open(m, a, d) == ~BitSet(At(m, a), d)

\* the open wall pairs among the cells P: both sides of the wall are open;
\* each pair once, from its west or north cell
OpenPairs(m, P) ==
  { e \in Adjacent(maze.width, maze.height) :
      /\ e[3] \in { EAST, SOUTH }
      /\ e[1] \in P /\ e[2] \in P
      /\ Open(m, e[1], e[3]) /\ Open(m, e[2], opposite(e[3])) }

RECURSIVE Grow(_, _)
\* the cells joined to the cells S by the pairs E
Grow(S, E) ==
  LET more == S \cup { e[2] : e \in { x \in E : x[1] \in S } }
                \cup { e[1] : e \in { x \in E : x[2] \in S } }
  IN  IF more = S THEN S ELSE Grow(more, E)

\* a generation run has completed: create_maze_instant has returned, or
\* the sequence of create_maze is exhausted
Completed ==
  \/ run.fn = "create_maze_instant" /\ run.pc = "returned"
  \/ run.fn = "create_maze" /\ run.pc = "exhausted"

---------------------------------------------------------------------------
(* Claims about the generated grid.                                         *)

\* C1: after a completed run with is_perfect = true the open walls among the
\* non-obstacle cells form a spanning tree: there are (number of non-obstacle
\* cells - 1) open wall pairs and every non-obstacle cell is joined to every
\* other one (all of them are joined to one of them, the pairs having no
\* direction).
C1_SpanningTree ==
  (Completed /\ maze.is_perfect) =>
     \E P \in { Playable } :
       \E E \in { OpenPairs(maze.map, P) } :
         /\ Cardinality(E) = Cardinality(P) - 1
         /\ \A c \in { CHOOSE x \in P : TRUE } : Grow({c}, E) = P

\* a perfect run over the heart layout has been driven to exhaustion
C1_Witness ==
  /\ run.fn = "create_maze" /\ run.pc = "exhausted"
  /\ maze.is_perfect /\ maze.heart
  /\ Cardinality(Playable) > 30

\* the pairs of adjacent cells of P whose two wall bits disagree
OneWay(m, P) ==
  { e \in Adjacent(maze.width, maze.height) :
      /\ e[1] \in P /\ e[2] \in P
      /\ Open(m, e[1], e[3]) # Open(m, e[2], opposite(e[3])) }

\* create_maze is suspended at a yield
Suspended == run.fn = "create_maze" /\ run.pc \in { "yield_loop", "yield_final" }

\* C2: wall symmetry.  In the grid of a completed run, for adjacent
\* non-obstacle cells, and among the Committed cells at every suspension
\* point of a stepwise run: the wall bit of A toward B is clear iff the wall
\* bit of B toward A is clear.
C2_WallSymmetry ==
  /\ Completed => OneWay(maze.map, Playable) = {}
  /\ Suspended => OneWay(gen.maze_map, gen.found) = {}

\* a non-perfect stepwise run is suspended in the walk with an open wall
\* between two Committed cells
C2_Witness ==
  /\ run.fn = "create_maze" /\ run.pc = "yield_loop" /\ ~maze.is_perfect
  /\ OpenPairs(gen.maze_map, gen.found) # {}

---------------------------------------------------------------------------
(* Claims about the path search.                                            *)

\* cell c is an obstacle of the layout of the Maze object
IsObstacle(c) ==
  \/ c \in Sign42(maze.width, maze.height)
  \/ maze.heart /\ ~InsideHeart(c % maze.width, c \div maze.width,
                                 maze.width, maze.height)

\* entry and exit are indices of non-obstacle cells
ValidEnds ==
  /\ maze.entry \in Cells(maze.width, maze.height)
  /\ maze.exit \in Cells(maze.width, maze.height)
  /\ ~IsObstacle(maze.entry) /\ ~IsObstacle(maze.exit)

\* the pair of cells a, b is one of the open wall pairs E
Joined(E, a, b) ==
  \E e \in E : (e[1] = a /\ e[2] = b) \/ (e[1] = b /\ e[2] = a)

RECURSIVE Hops(_, _, _, _)
\* the least number of open wall pairs E to cross from the cells S, n away
\* from the start, to the cell target; -1 if there is no route
Hops(S, E, target, n) ==
  LET more == S \cup { e[2] : e \in { x \in E : x[1] \in S } }
                \cup { e[1] : e \in { x \in E : x[2] \in S } }
  IN  IF target \in S THEN n
      ELSE IF more = S THEN -1
      ELSE Hops(more, E, target, n + 1)

\* C3: on the grid of a completed run with valid entry and exit,
\* find_path_instant returns a non-empty sequence of cells that starts at
\* entry, ends at exit, moves only between adjacent cells whose shared wall
\* is open, and has the least number of hops of all such routes.
C3_ShortestPath ==
  (search.fn = "find_path_instant" /\ Completed /\ ValidEnds) =>
     \E E \in { OpenPairs(maze.map, Cells(maze.width, maze.height)) } :
       /\ search.pc = "returned"
       /\ search.path # << >>
       /\ search.path[1] = maze.entry
       /\ search.path[Len(search.path)] = maze.exit
       /\ \A k \in 1 .. (Len(search.path) - 1) :
            Joined(E, search.path[k], search.path[k + 1])
       /\ Len(search.path) - 1 = Hops({maze.entry}, E, maze.exit, 0)

\* find_path_instant has returned a path of more than five hops on a grid
\* with more open wall pairs than a tree has
C3_Witness ==
  /\ search.fn = "find_path_instant" /\ search.pc = "returned"
  /\ Completed /\ ValidEnds /\ ~maze.is_perfect
  /\ Len(search.path) > 6
  /\ Cardinality(OpenPairs(maze.map, Playable)) >= Cardinality(Playable)

\* the singletons of the cells of a sequence
Singles(seq) == [k \in 1 .. Len(seq) |-> << seq[k] >>]

\* C7: on the grid of a completed run with valid entry and exit, find_path
\* yields one singleton per dequeue, in dequeue order; the exit is dequeued
\* last and nothing after it; then the sequence yields one more element,
\* the path, which is the result of find_path_instant on the same grid.
C7_StepwiseSearch ==
  (search.fn = "find_path" /\ search.pc # "created" /\ Completed
     /\ ValidEnds) =>
     /\ search.pc \in { "yield_cell", "yield_path", "exhausted" }
     /\ \A k \in 1 .. (Len(search.dequeued) - 1) :
          search.dequeued[k] # maze.exit
     /\ search.pc = "yield_cell" => search.yields = Singles(search.dequeued)
     /\ search.pc \in { "yield_path", "exhausted" } =>
          \E r \in { find_path_instant(maze) } :
            /\ search.dequeued[Len(search.dequeued)] = maze.exit
            /\ search.yields
                 = Append(Singles(search.dequeued), search.path)
            /\ r.pc = "returned"
            /\ search.path = r.path

\* a stepwise search over a grid with loops is exhausted after more than
\* twenty dequeues
C7_Witness ==
  /\ search.fn = "find_path" /\ search.pc = "exhausted"
  /\ Completed /\ ValidEnds /\ ~maze.is_perfect
  /\ Len(search.yields) > 21

---------------------------------------------------------------------------
(* Claims about termination, determinism and the two ways to generate.      *)

\* the grid is too small for the sign
TooSmall == maze.width <= 8 \/ maze.height <= 6

\* the configuration passes the validation of the setup
Validated == ~TooSmall /\ ValidEnds

RECURSIVE WalkReach(_)
\* the cells a walk can come to from the cells S: the neighbour lists are
\* followed from cell to cell
WalkReach(S) ==
  LET more == S \cup UNION { { At(gen.neighbors, c)[j] :
                                 j \in DOMAIN At(gen.neighbors, c) } :
                             c \in S }
  IN  IF more = S THEN S ELSE WalkReach(more)

\* a walk is under way: the inner loop has not found a Committed cell
Walking == run.pc \in { "inner", "yield_loop" } /\ ~run.path_found

\* C4 (a condition every terminating run meets): on a configuration that
\* passes validation, a walk that is under way can reach a Committed cell
\* through the neighbour links, so that fair random choices end it.
C4_WalkReachesCommitted ==
  (Validated /\ Walking) =>
     WalkReach({run.current_pos}) \cap gen.found # {}

\* create_maze_instant with the same Maze arguments and seed on a Maze and
\* a MazeGenerator just made
FreshInstant ==
  InstantRun([maze |-> [maze EXCEPT !.map = << >>, !.alias = FALSE],
              gen |-> NoGenerator,
              f |-> NewFrame("create_maze_instant", run.seed, FALSE)],
             Fuel(World))

C6_StepwiseEqualsInstant ==
  (run.fn = "create_maze" /\ run.pc = "exhausted" /\ search.pc = "idle") =>
     \E r \in { FreshInstant } :
       /\ r.f.pc = "returned"
       /\ maze.map = r.maze.map
       /\ gen.maze_map = r.gen.maze_map
       /\ gen.draws = r.gen.draws
       /\ gen.maze_random = r.gen.maze_random

\* a visualized stepwise generation of a non-perfect grid is exhausted, the
\* tempo having been changed on the way
C6_Witness ==
  /\ run.fn = "create_maze" /\ run.pc = "exhausted" /\ search.pc = "idle"
  /\ run.visualize /\ ~maze.is_perfect
  /\ gen.visualisation_tempo = MaxTempo

---------------------------------------------------------------------------
(* Claims about the errors of the setup.                                    *)

\* before this step no generation had run since the call; after it the body
\* of a generation call has run up to its end, its error or its first yield
Started == run.pc \in { "idle", "call" } /\ run'.pc \notin { "idle", "call" }

\* the next state of the generator has consumed no random draw
NoDrawYet == gen'.draws = 0 /\ gen'.maze_random = Seeded(run'.seed)

\* C8: on a Maze with width <= 8 or height <= 6, heart flag on or off, a
\* generation call fails with the grid-too-small error before any random
\* draw, and no step changes the Maze object.
C8_GridTooSmall ==
  [][ TooSmall =>
        /\ maze' = maze
        /\ Started => /\ run'.pc = "raised"
                      /\ run'.error = GridTooSmall
                      /\ NoDrawYet ]_vars

\* a stepwise generation of a heart grid of width 8 has failed
C8_Witness ==
  /\ maze.width = 8 /\ maze.height = 7 /\ maze.heart
  /\ run.fn = "create_maze" /\ run.pc = "raised"
  /\ run.error = GridTooSmall

\* the grid takes the sign, entry and exit are indices of cells, and one of
\* them is an obstacle
ObstacleEnd ==
  /\ ~TooSmall
  /\ maze.entry \in Cells(maze.width, maze.height)
  /\ maze.exit \in Cells(maze.width, maze.height)
  /\ IsObstacle(maze.entry) \/ IsObstacle(maze.exit)

\* C9: when entry or exit is the index of an obstacle cell (of the sign, or
\* outside the heart) on a grid that takes the sign, a generation call fails
\* with the invalid-start error (entry) or the invalid-end error (exit)
\* before any random draw and any walk step, and no step changes the map of
\* the Maze object.
C9_ObstacleEnd ==
  [][ ObstacleEnd =>
        /\ maze'.map = maze.map
        /\ Started => /\ run'.pc = "raised"
                      /\ run'.error = IF IsObstacle(maze.entry)
                                       THEN InvalidStart ELSE InvalidEnd
                      /\ NoDrawYet
                      /\ run'.i = 0 /\ run'.path = << >>
                      /\ gen'.found = {} ]_vars

\* a one-shot generation has failed for an exit outside the heart
C9_Witness ==
  /\ maze.heart /\ ObstacleEnd /\ ~IsObstacle(maze.entry)
  /\ run.fn = "create_maze_instant" /\ run.pc = "raised"
  /\ run.error = InvalidEnd

\* the arguments m of Maze(...) have entry equal to exit, or a coordinate of
\* entry or exit outside 0 <= x < width, 0 <= y < height
BadEnds(m) ==
  \/ m[3] = m[4]
  \/ \E e \in { m[3], m[4] } :
       ~(0 <= e[1] /\ e[1] < m[1] /\ 0 <= e[2] /\ e[2] < m[2])

\* the Maze object is the one Maze(...) makes of the arguments m
MadeOf(m) ==
  [maze EXCEPT !.map = << >>, !.alias = FALSE]
    = MazeInit(m[1], m[2], m[3], m[4], m[5], m[6])

\* C10: a generation call on a Maze made with entry equal to exit, or with
\* an entry or exit coordinate out of range, fails with the invalid-start or
\* the invalid-end error.
C10_BadEndsRejected ==
  \A m \in { x \in Mazes : BadEnds(x) /\ x[1] > 8 /\ x[2] > 6 } :
    (MadeOf(m) /\ run.pc \notin { "idle", "call" }) =>
       (run.pc = "raised" /\ run.error \in { InvalidStart, InvalidEnd })

---------------------------------------------------------------------------
(* Claims about the augmentation pass and the written grid.                 *)

\* the directions in which the value v has an open wall
OpenDirs(v) == { d \in { NORTH, EAST, SOUTH, WEST } : ~BitSet(v, d) }

\* the cells of the list m with exactly one open wall
DeadEnds(m) == { c \in 0 .. Len(m) - 1 : At(m, c) \in end_blocks }

\* a run with is_perfect = false has completed: the pass has run over tree
Augmented == Completed /\ ~maze.is_perfect

\* C11: the augmentation pass never removes an opening and never
\* disconnects the grid.  For every cell the open directions after the pass
\* include those before it; the single-opening cells after the pass are
\* among those before it; every non-obstacle cell is still joined to every
\* other one.
C11_AugmentationMonotone ==
  Augmented =>
    /\ Len(maze.map) = Len(run.tree)
    /\ \A c \in 0 .. Len(run.tree) - 1 :
         OpenDirs(At(run.tree, c)) \subseteq OpenDirs(At(maze.map, c))
    /\ DeadEnds(maze.map) \subseteq DeadEnds(run.tree)
    /\ \E P \in { Playable } :
         \A c \in { CHOOSE x \in P : TRUE } :
           Grow({c}, OpenPairs(maze.map, P)) = P

\* the pass has opened a wall of a dead end of the tree
C11_Witness ==
  /\ Augmented
  /\ DeadEnds(run.tree) # {}
  /\ \E c \in DeadEnds(run.tree) : At(maze.map, c) # At(run.tree, c)

\* the values of the list lst
Values(lst) == { lst[k] : k \in 1 .. Len(lst) }

\* the lists one turn of the loop of _create_non_perfect_maze can leave at
\* cell i of the list m, over every value that
\* self.maze_random.choice(self.neighbors[i]) can return
AugmentAt(g, m, i) ==
  IF At(m, i) \in end_blocks
  THEN { _update_walls_for_passage(
           m, i, n, _derive_path_directions(<< i, n >>, g.width)[1]) :
           n \in Values(At(g.neighbors, i)) }
  ELSE { m }

RECURSIVE AugmentRange(_, _, _, _)
\* the lists the loop can leave over the cells lo .. hi, in order, started
\* with one of the lists maps
AugmentRange(g, maps, lo, hi) ==
  IF lo > hi THEN maps
  ELSE IF lo = hi THEN UNION { AugmentAt(g, m, lo) : m \in maps }
  ELSE CHOOSE r \in
         { AugmentRange(g, half, ((lo + hi) \div 2) + 1, hi) :
             half \in { AugmentRange(g, maps, lo, (lo + hi) \div 2) } } : TRUE

\* the lists _create_non_perfect_maze can leave, started with the list tree
AugmentOutcomes(g, tree) == AugmentRange(g, { tree }, 0, Len(tree) - 1)

\* generator.create_maze_instant(maze, seed) on a new generator, the draws
\* of the augmentation pass taken as any element of the list drawn from; the
\* state of maze_random after the pass is not followed
create_maze_instant_any ==
  /\ UNCHANGED << cli, aside >>
  /\ run.pc = "idle"
  /\ UNCHANGED << finder, search >>
  /\ \E seed \in Seeds :
       \E s1 \in { InstantRun(
                       [World EXCEPT !.f = NewFrame("create_maze_instant",
                                                    seed, FALSE)],
                       Fuel(World)) } :
         \E m \in IF s1.f.pc = "returned" /\ ~s1.gen.is_perfect
                  THEN AugmentOutcomes(s1.gen, s1.f.tree)
                  ELSE { s1.maze.map } :
           \E g \in { [s1.gen EXCEPT !.maze_map = m] } :
             /\ maze' = [s1.maze EXCEPT !.map = g.maze_map]
             /\ gen' = g
             /\ run' = IF s1.f.pc = "returned"
                       THEN [s1.f EXCEPT !.ret = get_maze_str(g)]
                       ELSE s1.f

NextAnyChoice == create_maze_instant_any

\* the runs of create_maze_instant over every outcome of the draws of the
\* augmentation pass
SpecAnyChoice == Init /\ [][NextAnyChoice]_vars

\* C12: in every run with is_perfect = false, whatever the random neighbour
\* choices of the pass, at least one cell that was a single-opening dead end
\* in the spanning tree has two or more openings after the pass.
C12_AugmentationOpensCycle ==
  Augmented =>
    \E c \in DeadEnds(run.tree) :
      Cardinality(OpenDirs(At(maze.map, c))) >= 2

\* str.split("\n"): the pieces of the string between its line breaks
SplitLines(str) ==
  LET nl     == { i \in 1 .. Len(str) : str[i] = "\n" }
      cut(k) == CHOOSE i \in nl : Cardinality({ j \in nl : j < i }) = k - 1
      n      == Cardinality(nl) + 1
  IN  [k \in 1 .. n |->
         SubSeq(str, IF k = 1 THEN 1 ELSE cut(k - 1) + 1,
                     IF k = n THEN Len(str) ELSE cut(k) - 1)]

\* C13: the string of get_maze_str has exactly height lines of exactly
\* width hexadecimal digits, in row-major order; the digit of a non-obstacle
\* cell is its 4-bit wall mask, and every obstacle cell (each cell of the
\* '42' sign and, with the heart flag, each cell outside the heart) is
\* written as F.
C13_WrittenGrid ==
  Completed =>
    \E lines \in { SplitLines(get_maze_str(gen)) } :
      /\ Len(lines) = maze.height
      /\ \A y \in 0 .. maze.height - 1 :
           /\ Len(lines[y + 1]) = maze.width
           /\ \A x \in 0 .. maze.width - 1 :
                lines[y + 1][x + 1] =
                  IF IsObstacle(y * maze.width + x) THEN "F"
                  ELSE HexDigits[At(maze.map, y * maze.width + x) + 1]

\* the value read from one character taken as a hexadecimal digit; NODIGIT
\* for a character that is not one
NODIGIT == 16

HexValue(ch) ==
  IF \E v \in 0 .. 15 : HexDigits[v + 1] = ch
  THEN CHOOSE v \in 0 .. 15 : HexDigits[v + 1] = ch
  ELSE NODIGIT

RECURSIVE Flatten(_)
\* the lists of the list rows, one after the other
Flatten(rows) ==
  IF rows = << >> THEN << >> ELSE rows[1] \o Flatten(Tail(rows))

\* the list read back from a written grid: the string is split into lines
\* and each character of each line is read as one hexadecimal digit
ReadGrid(str) ==
  Flatten([y \in 1 .. Len(SplitLines(str)) |->
             [x \in 1 .. Len(SplitLines(str)[y]) |->
                HexValue(SplitLines(str)[y][x])]])

\* C14: round trip.  For every grid left by a completed generation run,
\* splitting the string of get_maze_str into lines and reading each
\* character as one hexadecimal digit gives maze.map again: the same length
\* width * height and the same value at every index; every final cell value
\* lies in 0 .. 15.
C14_RoundTrip ==
  Completed =>
    \E back \in { ReadGrid(get_maze_str(gen)) } :
      /\ Len(back) = maze.width * maze.height
      /\ Len(maze.map) = maze.width * maze.height
      /\ back = maze.map
      /\ \A c \in 1 .. Len(maze.map) : maze.map[c] \in 0 .. 15

\* the grid of a completed heart run, with closed cells, cells without any
\* wall and cells in between, has been written and read back
C14_Witness ==
  /\ Completed /\ maze.heart
  /\ ReadGrid(get_maze_str(gen)) = maze.map
  /\ \E a, b, c \in 1 .. Len(maze.map) :
       maze.map[a] = 15 /\ maze.map[b] = 0 /\ maze.map[c] \in 1 .. 14

---------------------------------------------------------------------------
(* Claims about the path string and the finder's effects.                   *)

\* the index offset of one letter of a path string
Offset(ch, width) ==
  CASE ch = "E" -> 1
    [] ch = "W" -> 0 - 1
    [] ch = "S" -> width
    [] ch = "N" -> 0 - width
    [] OTHER -> 0

RECURSIVE Replay(_, _, _)
\* the cells visited when the letters are followed from the cell start
Replay(start, letters, width) ==
  IF letters = << >> THEN << start >>
  ELSE << start >> \o Replay(start + Offset(letters[1], width),
                             Tail(letters), width)

\* get_str_path has been called with the path found on the grid of a
\* completed run with valid entry and exit
PathWritten == search.str_done /\ Completed /\ ValidEnds

\* C15: for every path the finder returns on a generated grid, get_str_path
\* returns exactly len(path) - 1 characters, the k-th being E, W, S or N as
\* path[k+1] - path[k] is +1, -1, +width or -width; following the letters
\* from entry visits exactly the cells of the path and ends at exit.
C15_PathString ==
  PathWritten =>
    /\ Len(search.str_path) = Len(search.path) - 1
    /\ \A k \in 1 .. Len(search.str_path) :
         \/ search.str_path[k] = "E"
              /\ search.path[k + 1] - search.path[k] = 1
         \/ search.str_path[k] = "W"
              /\ search.path[k + 1] - search.path[k] = 0 - 1
         \/ search.str_path[k] = "S"
              /\ search.path[k + 1] - search.path[k] = maze.width
         \/ search.str_path[k] = "N"
              /\ search.path[k + 1] - search.path[k] = 0 - maze.width
    /\ \E cells \in { Replay(maze.entry, search.str_path, maze.width) } :
         /\ cells = search.path
         /\ cells[Len(cells)] = maze.exit

\* the string of a path that goes in three directions or more, one of them
\* toward lower indices, has been written
C15_Witness ==
  /\ PathWritten
  /\ Cardinality(Values(search.str_path)) >= 3
  /\ Values(search.str_path) \cap { "N", "W" } # {}

\* the Maze object is the manually constructed 2x2 grid with the list cells
Manual(cells) ==
  /\ maze.width = 2 /\ maze.height = 2 /\ maze.entry = 0 /\ maze.exit = 3
  /\ maze.map = cells

\* C16: on a manually constructed 2x2 grid whose four cells all have wall
\* mask 0, with entry = 0 and exit = 3, find_path_instant returns the path
\* [0, 2, 3]: with the neighbours taken in the order North, South, East,
\* West, the route by the south is chosen over [0, 1, 3].
C16_OpenGrid ==
  (Manual(<< 0, 0, 0, 0 >>) /\ search.fn = "find_path_instant") =>
     /\ search.pc = "returned"
     /\ search.path = << 0, 2, 3 >>

\* a step of find_path_instant, of find_path or of get_str_path
FinderStep == search' # search

---------------------------------------------------------------------------
(* Claims about a generator used again, the command line and the walk.      *)

\* the call with frame f made on a MazeGenerator that has never been used
OnNewGenerator(f) ==
  [maze |-> [maze EXCEPT !.alias = FALSE], gen |-> NoGenerator, f |-> f]

\* the generator has been used: a run on it has got as far as _prepare_data
Used == gen # NoGenerator

\* C18: a generation run started on a MazeGenerator used before (the run
\* before completed, failed, or was a stepwise run given up part-way, with
\* any seed) goes as on a new generator and leaves the same grid: the state
\* after create_maze_instant, and the state at the first suspension of
\* create_maze, are those the same call on a new generator leads to, so no
\* cell state, available set, Committed set, neighbour list or state of
\* maze_random carries over.
C18_ReuseIsFresh ==
  [][ Used =>
        /\ (run'.fn = "create_maze_instant" /\ << gen', run' >> # << gen, run >>)
             => \E r \in { InstantRun(
                              OnNewGenerator(NewFrame("create_maze_instant",
                                                      run'.seed, FALSE)),
                              Fuel(World)) } :
                  maze' = r.maze /\ gen' = r.gen /\ run' = r.f
        /\ (run.fn = "create_maze" /\ run.pc = "call"
              /\ run'.fn = "create_maze" /\ run'.pc # "call")
             => \E r \in { GeneratorRun(OnNewGenerator(run), Fuel(World)) } :
                  maze' = r.maze /\ gen' = r.gen /\ run' = r.f ]_vars

\* a stepwise run with another seed has been started on a generator whose
\* run before was given up in the walk, with Pending cells in its list
C18_Witness ==
  /\ run.fn = "create_maze" /\ run.pc = "call"
  /\ gen.seed # run.seed
  /\ gen.available_cells # {}
  /\ \E c \in 1 .. Len(gen.maze_map) : gen.maze_map[c] = PENDING

---------------------------------------------------------------------------
(* a_maze_ing.main.  cli.config is the parsed configuration                 *)
(* << width, height, entry, exit, perfect, heart, seed >>; the output file  *)
(* name and the flags are taken as well-formed.  cli.pc is the line main    *)
(* is at: "check" 122, "construct" 124, "generate" 141, "find" 142,         *)
(* "str" 143, "write" 145, "visualizer" 151; "done" after a printed         *)
(* error, "crashed" after an exception main does not catch, "hung" when     *)
(* the generation does not return within the bound of the model.            *)

\* the messages of main's errors
InvalidCoordinates == "Invalid (start, end) coordinates."
KeyMissing == "Key missing"

\* a variant of check_entry_exit_coordinates without the tests against 0
CheckUpperOnly(entry, exit, width, height) ==
  IF \/ entry[1] > width - 1 \/ entry[2] > height - 1
     \/ exit[1] > width - 1 \/ exit[2] > height - 1
     \/ (entry[1] = exit[1] /\ entry[2] = exit[2])
  THEN InvalidCoordinates ELSE ""

\* check_entry_exit_coordinates: the message of the ValueError raised, ""
\* if none
check_entry_exit_coordinates(entry, exit, width, height) ==
  IF \/ entry[1] < 0 \/ entry[1] > width - 1
     \/ entry[2] < 0 \/ entry[2] > height - 1
     \/ exit[1] < 0 \/ exit[1] > width - 1
     \/ exit[2] < 0 \/ exit[2] > height - 1
     \/ (entry[1] = exit[1] /\ entry[2] = exit[2])
  THEN InvalidCoordinates ELSE ""

\* the Maze variable of main before line 135
NoMaze == MazeInit(0, 0, << 0, 0 >>, << 0, 0 >>, TRUE, FALSE)

\* the configurations of the model: those of the Maze objects above and
\* one with entry off the grid and exit on it, each with every seed
Configs ==
  { m \o << seed >> :
      m \in Mazes \cup { << 9, 7, << -1, 0 >>, << 5, 5 >>, TRUE, FALSE >> },
      seed \in Seeds }

\* main has parsed the configuration, lines 91-120
InitMain ==
  /\ \E c \in Configs : cli = [NoCli EXCEPT !.pc = "check", !.config = c]
  /\ maze = NoMaze
  /\ gen = NoGenerator
  /\ run = NoFrame
  /\ finder = NoFinder
  /\ search = NoSearch
  /\ other = NoOther /\ vis = NoVis /\ player = NoPlayer

\* line 122, and line 157 when the check raises
MainCheck ==
  /\ UNCHANGED aside
  /\ cli.pc = "check"
  /\ \E e \in { check_entry_exit_coordinates(cli.config[3], cli.config[4],
                                              cli.config[1], cli.config[2]) } :
       cli' = IF e # "" THEN [cli EXCEPT !.pc = "done", !.printed = e]
              ELSE [cli EXCEPT !.pc = "construct"]
  /\ UNCHANGED << maze, gen, run, finder, search >>

\* lines 124-140: the Maze, the generator and the finder are constructed
MainConstruct ==
  /\ UNCHANGED aside
  /\ cli.pc = "construct"
  /\ maze' = MazeInit(cli.config[1], cli.config[2], cli.config[3],
                      cli.config[4], cli.config[5], cli.config[6])
  /\ gen' = NoGenerator
  /\ finder' = NoFinder
  /\ cli' = [cli EXCEPT !.pc = "generate"]
  /\ UNCHANGED << run, search >>

\* line 141; a ValueError is printed at line 157, an IndexError is not
\* caught
MainGenerate ==
  /\ UNCHANGED aside
  /\ cli.pc = "generate"
  /\ \E s1 \in { InstantRun(
                     [World EXCEPT !.f = NewFrame("create_maze_instant",
                                                  cli.config[7], FALSE)],
                     Fuel(World)) } :
       /\ maze' = s1.maze
       /\ gen' = s1.gen
       /\ run' = s1.f
       /\ cli' = IF s1.f.pc = "returned" THEN [cli EXCEPT !.pc = "find"]
                 ELSE IF s1.f.pc = "raised"
                         /\ s1.f.error \in { GridTooSmall, InvalidStart,
                                             InvalidEnd }
                 THEN [cli EXCEPT !.pc = "done", !.printed = s1.f.error]
                 ELSE IF s1.f.pc = "raised" THEN [cli EXCEPT !.pc = "crashed"]
                 ELSE [cli EXCEPT !.pc = "hung"]
  /\ UNCHANGED << finder, search >>

\* line 142; a KeyError is printed at line 155, an IndexError is not caught
MainFind ==
  /\ UNCHANGED aside
  /\ cli.pc = "find"
  /\ finder' = FinderPrepare(maze)
  /\ search' = find_path_instant(maze)
  /\ maze' = [maze EXCEPT !.map = finder'.maze]
  /\ cli' = IF search'.pc = "returned" THEN [cli EXCEPT !.pc = "str"]
            ELSE IF search'.error = KeyError
            THEN [cli EXCEPT !.pc = "done", !.printed = KeyMissing]
            ELSE [cli EXCEPT !.pc = "crashed"]
  /\ UNCHANGED << gen, run >>

\* line 143
MainStr ==
  /\ UNCHANGED aside
  /\ cli.pc = "str"
  /\ search' = [search EXCEPT
                  !.str_path = get_str_path(search.path, finder.width),
                  !.str_done = TRUE]
  /\ cli' = [cli EXCEPT !.pc = "write"]
  /\ UNCHANGED << maze, gen, run, finder >>

\* lines 145-149: the output file, as the list of what is written to it
MainWrite ==
  /\ UNCHANGED aside
  /\ cli.pc = "write"
  /\ cli' = [cli EXCEPT !.pc = "visualizer", !.written = TRUE,
                        !.file = << run.ret, cli.config[3], cli.config[4],
                                    search.str_path >>]
  /\ UNCHANGED << maze, gen, run, finder, search >>

NextMain ==
  \/ MainCheck
  \/ MainConstruct
  \/ MainGenerate
  \/ MainFind
  \/ MainStr
  \/ MainWrite

\* the runs of the program from the parsed configuration on
SpecMain == InitMain /\ [][NextMain]_vars

\* the configuration c has an entry or exit coordinate off the grid, or
\* entry equal to exit
BadCoordinates(c) ==
  \/ c[3][1] \notin 0 .. c[1] - 1 \/ c[3][2] \notin 0 .. c[2] - 1
  \/ c[4][1] \notin 0 .. c[1] - 1 \/ c[4][2] \notin 0 .. c[2] - 1
  \/ c[3] = c[4]

\* C19: in the command-line flow, a configuration whose entry or exit has x
\* outside 0 .. width-1 or y outside 0 .. height-1, or whose entry equals
\* its exit, is rejected with the error of check_entry_exit_coordinates
\* before a Maze is constructed, before any generation call and before the
\* output file is written.
C19_CliRejects ==
  (cli.pc # "none" /\ BadCoordinates(cli.config)) =>
     /\ cli.pc \in { "check", "done" }
     /\ cli.pc = "done" => cli.printed = InvalidCoordinates
     /\ maze = NoMaze
     /\ gen = NoGenerator /\ run = NoFrame
     /\ finder = NoFinder /\ search = NoSearch
     /\ ~cli.written /\ cli.file = << >>

\* main has ended with the error for the entry (-1, 0) on the 9x7 grid
C19_Witness ==
  /\ cli.pc = "done" /\ cli.printed = InvalidCoordinates
  /\ cli.config[1] = 9 /\ cli.config[2] = 7
  /\ cli.config[3] = << -1, 0 >> /\ cli.config[4] = << 5, 5 >>

---------------------------------------------------------------------------
(* Claims about the walk.                                                   *)

\* the step from one suspension of a stepwise run to the next is one walk
\* step, and the neighbour it picks is Pending in the current path
LoopStep ==
  /\ run.fn = "create_maze" /\ run.pc = "yield_loop" /\ ~run.path_found
  /\ run'.fn = "create_maze" /\ run'.pc = "yield_loop"
  /\ run'.seed = run.seed /\ run'.i = run.i + 1
  /\ At(gen.maze_map, run'.current_pos) = PENDING

\* the place in the list path of its last occurrence of the cell c, 0 if
\* there is none
PlaceOf(path, c) ==
  IF \A k \in 1 .. Len(path) : path[k] # c THEN 0
  ELSE CHOOSE k \in 1 .. Len(path) :
         path[k] = c /\ \A j \in (k + 1) .. Len(path) : path[j] # c

\* the cells of the list path after the place k
CellsAfter(path, k) == { path[j] : j \in (k + 1) .. Len(path) }

\* C20 as stated: when a walk step picks a neighbour that is already
\* Pending in the current path, the suffix of the path back to and
\* including the earlier occurrence of that cell is erased, every erased
\* cell is reset to Unvisited and returned to the available set, and the
\* walk continues from the re-found cell.
C20_ErasesThroughCell ==
  [][ LoopStep =>
        \E k \in { PlaceOf(run.path, run'.current_pos) } :
          /\ k > 0
          /\ run'.path = SubSeq(run.path, 1, k - 1)
          /\ \A e \in CellsAfter(run.path, k - 1) :
               /\ At(gen'.maze_map, e) = UNVISITED
               /\ e \in gen'.available_cells ]_vars

\* C20, amended: when a walk step picks a neighbour that is already Pending
\* in the current path, the cells of the path after the earlier occurrence
\* of that cell are erased, each of them reset to Unvisited and returned to
\* the available set; the re-found cell itself stays the last cell of the
\* path, Pending and out of the available set, no other cell changes, and
\* the walk continues from the re-found cell.
C20_ErasesAfterCell ==
  [][ LoopStep =>
        \E k \in { PlaceOf(run.path, run'.current_pos) } :
          /\ k > 0 /\ k < Len(run.path)
          /\ run'.path = SubSeq(run.path, 1, k)
          /\ run'.path[k] = run'.current_pos
          /\ At(gen'.maze_map, run'.current_pos) = PENDING
          /\ run'.current_pos \notin gen'.available_cells
          /\ \A e \in CellsAfter(run.path, k) :
               /\ At(gen'.maze_map, e) = UNVISITED
               /\ e \in gen'.available_cells
          /\ gen'.available_cells =
               gen.available_cells \cup CellsAfter(run.path, k)
          /\ \A c \in (0 .. Len(gen.maze_map) - 1) \ CellsAfter(run.path, k) :
               At(gen'.maze_map, c) = At(gen.maze_map, c)
          /\ ~run'.path_found ]_vars

\* the first walk of a run is suspended with fewer cells in its path than
\* the steps it has taken: cells have been erased, and the walk stands on
\* the last cell of the path, which is Pending
C20_Witness ==
  /\ run.fn = "create_maze" /\ run.pc = "yield_loop" /\ ~run.path_found
  /\ Cardinality(gen.found) = 1
  /\ run.i + 1 - Len(run.path) >= 4
  /\ Len(run.path) >= 2
  /\ run.path[Len(run.path)] = run.current_pos
  /\ At(gen.maze_map, run.current_pos) = PENDING

\* the step from one suspension of a stepwise run to the next is one walk
\* step, and the neighbour it picks is a Committed cell
ArrivalStep ==
  /\ run.fn = "create_maze" /\ run.pc = "yield_loop" /\ ~run.path_found
  /\ run'.fn = "create_maze" /\ run'.pc = "yield_loop"
  /\ run'.seed = run.seed /\ run'.i = run.i + 1
  /\ run'.current_pos \in gen.found

\* C21 as stated: when the neighbour chosen by a walk step is a Committed
\* cell, the walk ends successfully and that neighbour is not appended to
\* the path in progress, so the path of the snapshot for that step ends at
\* the last Pending cell.
C21_ArrivalNotAppended ==
  [][ ArrivalStep =>
        /\ run'.path_found
        /\ run'.path = run.path
        /\ At(gen'.maze_map, run'.path[Len(run'.path)]) = PENDING ]_vars

\* C21, amended: when the neighbour chosen by a walk step is a Committed
\* cell, the walk ends successfully and that neighbour is appended to the
\* path in progress: the path of the snapshot for that step is the path
\* before the step followed by the Committed cell; the cells before it are
\* Pending, and the step changes no cell value, nor the available set, nor
\* the Committed set.
C21_ArrivalAppended ==
  [][ ArrivalStep =>
        /\ run'.path_found
        /\ run'.path = Append(run.path, run'.current_pos)
        /\ \A k \in 1 .. Len(run.path) :
             At(gen'.maze_map, run'.path[k]) = PENDING
        /\ At(gen'.maze_map, run'.current_pos) \in 1 .. WALLS
        /\ gen'.maze_map = gen.maze_map
        /\ gen'.available_cells = gen.available_cells
        /\ gen'.found = gen.found ]_vars

\* a stepwise run is suspended with its walk ended: the path of three cells
\* or more ends at a Committed cell
C21_Witness ==
  /\ run.fn = "create_maze" /\ run.pc = "yield_loop" /\ run.path_found
  /\ Len(run.path) >= 3
  /\ run.path[Len(run.path)] \in gen.found
  /\ run.path[Len(run.path)] = run.current_pos

\* the step from one suspension of a stepwise run to the next is one walk
\* step: no commit, and a loop erasure if the step closes a loop
WalkStep ==
  /\ run.fn = "create_maze" /\ run.pc = "yield_loop" /\ ~run.path_found
  /\ run'.fn = "create_maze" /\ run'.pc = "yield_loop"
  /\ run'.seed = run.seed /\ run'.i = run.i + 1

\* the step from a suspension with the walk ended: the path is committed,
\* then the next walk takes its first step, or (is_perfect = true) the run
\* reaches its last yield
CommitStep ==
  /\ run.fn = "create_maze" /\ run.pc = "yield_loop" /\ run.path_found
  /\ run'.fn = "create_maze" /\ run'.seed = run.seed
  /\ \/ run'.pc = "yield_loop" /\ run'.i = run.i + 1
     \/ run'.pc = "yield_final" /\ run'.i = run.i /\ maze.is_perfect

\* the index of the neighbour of a cell in direction d
Toward(c, d, width) ==
  CASE d = NORTH -> c - width
    [] d = SOUTH -> c + width
    [] d = EAST  -> c + 1
    [] d = WEST  -> c - 1

\* the directions d in which cell c and its neighbour are consecutive cells
\* of the list path, in either order
Passages(path, c, width) ==
  { d \in { NORTH, EAST, SOUTH, WEST } :
      \E k \in 1 .. (Len(path) - 1) :
        \/ path[k] = c /\ path[k + 1] = Toward(c, d, width)
        \/ path[k + 1] = c /\ path[k] = Toward(c, d, width) }

\* the mask v with the bits of the directions D cleared
Cleared(v, D) ==
  (IF BitSet(v, NORTH) /\ NORTH \notin D THEN Pow2(NORTH) ELSE 0)
  + (IF BitSet(v, EAST) /\ EAST \notin D THEN Pow2(EAST) ELSE 0)
  + (IF BitSet(v, SOUTH) /\ SOUTH \notin D THEN Pow2(SOUTH) ELSE 0)
  + (IF BitSet(v, WEST) /\ WEST \notin D THEN Pow2(WEST) ELSE 0)

\* C22: commit is the only point of the walk loop where walls open.  A walk
\* step or a loop erasure leaves the wall mask of every Committed cell
\* unchanged; a commit clears exactly the two facing bits of each pair of
\* consecutive cells of the finished path, the cells of the path that were
\* Pending starting fully walled, and changes no other bit of any cell.
C22_WallsOpenAtCommit ==
  [][ /\ WalkStep =>
           /\ gen'.found = gen.found
           /\ \A c \in gen.found :
                At(gen'.maze_map, c) = At(gen.maze_map, c)
      /\ CommitStep =>
           /\ gen'.found = gen.found \cup Values(run.path)
           /\ \A c \in gen'.found :
                At(gen'.maze_map, c) =
                  Cleared(IF c \in gen.found THEN At(gen.maze_map, c)
                          ELSE WALLS,
                          Passages(run.path, c, gen.width)) ]_vars

\* a stepwise run is suspended in a walk after several commits: a Committed
\* cell has two open walls, another one three closed ones
C22_Witness ==
  /\ run.fn = "create_maze" /\ run.pc = "yield_loop" /\ ~run.path_found
  /\ Cardinality(gen.found) >= 6
  /\ \E a, b \in gen.found :
       /\ Cardinality(OpenDirs(At(gen.maze_map, a))) = 2
       /\ Cardinality(OpenDirs(At(gen.maze_map, b))) = 1

\* the cells of the generator's list that hold the value v
Holding(v) == { c \in 0 .. Len(gen.maze_map) - 1 : At(gen.maze_map, c) = v }

\* C23: at every suspension point of create_maze, that is after every walk
\* step when each step is yielded: the path in progress has no repeated
\* cell; the cells holding the Pending value 16 are exactly the cells of the
\* path that are not committed; no cell holds the loop marker -1; the
\* available set, the Pending cells and the committed set are pairwise
\* disjoint and together are exactly the non-obstacle cells.
C23_WalkInvariants ==
  Suspended =>
    /\ \A j, k \in 1 .. Len(run.path) : j # k => run.path[j] # run.path[k]
    /\ Holding(PENDING) = Values(run.path) \ gen.found
    /\ Holding(LOOP) = {}
    /\ gen.available_cells \cap Holding(PENDING) = {}
    /\ gen.available_cells \cap gen.found = {}
    /\ Holding(PENDING) \cap gen.found = {}
    /\ gen.available_cells \cup Holding(PENDING) \cup gen.found = Playable

\* a stepwise run is suspended in a walk with Pending, Committed and
\* available cells, one of the latter next to the cell the walk stands on
C23_Witness ==
  /\ run.fn = "create_maze" /\ run.pc = "yield_loop" /\ ~run.path_found
  /\ Len(run.path) >= 4
  /\ Cardinality(gen.found) >= 3 /\ Cardinality(gen.available_cells) >= 3
  /\ \E c \in gen.available_cells :
       \E k \in 1 .. Len(At(gen.neighbors, run.current_pos)) :
         At(gen.neighbors, run.current_pos)[k] = c

\* C24: a Committed cell stays Committed.  From one suspension of a stepwise
\* run to the next the committed set only grows and none of its cells comes
\* to hold 16 or -1, whatever its wall mask (0 included); at the first
\* suspension the committed set is the root alone, fully walled; and no run,
\* stepwise or instant, ends with the KeyError of removing an absent cell
\* from the available set.
C24_CommittedStays ==
  [][ /\ (Suspended /\ run'.fn = "create_maze" /\ run'.seed = run.seed
            /\ run'.pc \in { "yield_loop", "yield_final" }) =>
           /\ gen.found \subseteq gen'.found
           /\ \A c \in gen.found :
                At(gen'.maze_map, c) \notin { PENDING, LOOP }
      /\ (run'.fn = "create_maze" /\ run'.pc = "yield_loop" /\ run'.i = 1) =>
           /\ Cardinality(gen'.found) = 1
           /\ \A c \in gen'.found : At(gen'.maze_map, c) = WALLS
      /\ run'.pc = "raised" => run'.error # KeyError ]_vars

\* a stepwise run is suspended in a walk while a Committed cell has its four
\* walls open
C24_Witness ==
  /\ run.fn = "create_maze" /\ run.pc = "yield_loop" /\ ~run.path_found
  /\ \E c \in gen.found : At(gen.maze_map, c) = 0

\* the neighbour of cell c in direction d is a cell of the grid
Inside(c, d) ==
  CASE d = NORTH -> c \div maze.width > 0
    [] d = SOUTH -> c \div maze.width < maze.height - 1
    [] d = EAST  -> c % maze.width < maze.width - 1
    [] d = WEST  -> c % maze.width > 0

\* direction d from cell c leaves the grid or leads to an obstacle cell
Closed(c, d) ==
  ~Inside(c, d) \/ Toward(c, d, maze.width) \notin Playable

\* C25: in the grid of a completed run every non-obstacle cell has its wall
\* bit set in every direction that leaves the grid or leads to an obstacle
\* cell; a search started on that grid at a valid entry, instant or
\* stepwise, has enqueued only non-obstacle cells of the grid, each one from
\* a cell adjacent to it in the grid (indices within 0..width*height-1, no
\* step across the end of a row), and has raised no IndexError.
C25_BordersClosed ==
  /\ Completed =>
       \A c \in Playable : \A d \in { NORTH, EAST, SOUTH, WEST } :
         Closed(c, d) => BitSet(At(maze.map, c), d)
  /\ (Completed /\ ValidEnds /\ search.pc \notin { "idle", "created" }) =>
       /\ search.visited \subseteq Playable
       /\ \A c \in DOMAIN search.maze_connections :
            \E d \in { NORTH, EAST, SOUTH, WEST } :
              /\ Inside(search.maze_connections[c], d)
              /\ Toward(search.maze_connections[c], d, maze.width) = c
       /\ search.error # IndexError

\* a search on a completed heart grid has returned after visiting a cell on
\* the edge of the grid and a cell beside an obstacle inside the grid
C25_Witness ==
  /\ Completed /\ ValidEnds /\ maze.heart /\ search.pc = "returned"
  /\ Cardinality(search.visited) >= 20
  /\ \E c \in search.visited : \E d \in { NORTH, EAST, SOUTH, WEST } :
       ~Inside(c, d)
  /\ \E c \in search.visited : \E d \in { NORTH, EAST, SOUTH, WEST } :
       Inside(c, d) /\ Toward(c, d, maze.width) \notin Playable

\* the setup of the generator has built the neighbour lists of the Maze
SetUp ==
  /\ run.fn # "" /\ gen.neighbors # << >>
  /\ gen.width = maze.width /\ gen.height = maze.height
  /\ gen.heart = maze.heart

\* C26: once the setup has built it, the neighbour list of every
\* non-obstacle cell holds, each once, exactly the cells next to it in the
\* grid (no wrap across a row end) that are not obstacles, so the lists are
\* symmetric among non-obstacle cells; and in every state of the run the
\* available set, the committed set (the root included), the path and the
\* current cell of the walk hold no obstacle cell.
C26_NoObstacleInWalk ==
  SetUp =>
    /\ \A c \in Playable :
         /\ Values(At(gen.neighbors, c)) =
              { Toward(c, d, maze.width) :
                  d \in { x \in { NORTH, EAST, SOUTH, WEST } : ~Closed(c, x) } }
         /\ Len(At(gen.neighbors, c)) =
              Cardinality(Values(At(gen.neighbors, c)))
    /\ gen.available_cells \subseteq Playable
    /\ gen.found \subseteq Playable
    /\ Values(run.path) \subseteq Playable
    /\ (Suspended => run.current_pos \in Playable)

\* a stepwise run over the heart layout is suspended in a walk, on a cell
\* that has an obstacle beside it in the grid, before every cell is used
C26_Witness ==
  /\ SetUp /\ maze.heart
  /\ run.fn = "create_maze" /\ run.pc = "yield_loop" /\ ~run.path_found
  /\ Len(run.path) >= 2 /\ gen.available_cells # {}
  /\ \E d \in { NORTH, EAST, SOUTH, WEST } :
       /\ Inside(run.current_pos, d)
       /\ Toward(run.current_pos, d, maze.width) \notin Playable

\* the cells of the grid one step from a cell of S through a wall that is
\* open on the side of the cell of S
Around(S) ==
  { Toward(e[1], e[2], maze.width) :
      e \in { x \in S \X { NORTH, EAST, SOUTH, WEST } :
                Inside(x[1], x[2]) /\ Open(maze.map, x[1], x[2]) } }

RECURSIVE Layers(_, _)
\* the cells at 0, 1, 2, ... hops from the last set of the list L, which
\* starts with the sets before it; seen is the union of L
Layers(L, seen) ==
  LET more == Around(L[Len(L)]) \ seen
  IN  IF more = {} THEN L ELSE Layers(Append(L, more), seen \cup more)

\* a search is under way or over on a grid that a completed run has left,
\* or that the caller has written with the border walls closed, from an
\* entry that is a cell of the grid
SearchOnGrid ==
  /\ search.pc \notin { "idle", "created" }
  /\ maze.entry \in Cells(maze.width, maze.height)
  /\ Len(maze.map) = maze.width * maze.height
  /\ \/ Completed /\ ValidEnds
     \/ /\ maze \in ManualMazes
        /\ \A c \in Cells(maze.width, maze.height) :
             \A d \in { NORTH, EAST, SOUTH, WEST } :
               Inside(c, d) \/ ~Open(maze.map, c, d)

\* C27: at every point of a search each cell has been enqueued at most once
\* (the cells dequeued followed by the queue hold no cell twice and are the
\* visited set); every enqueued cell other than entry has one predecessor,
\* a cell next to it whose wall toward it is open and whose hop distance
\* from entry is one less; and the cells have been dequeued in
\* non-decreasing order of hop distance, the distances being computed by
\* layers over the open walls, apart from the search.
C27_BfsDiscipline ==
  SearchOnGrid =>
    \E L \in { Layers(<< {maze.entry} >>, {maze.entry}) } :
      \E all \in { search.dequeued \o search.queue } :
        /\ \A j, k \in 1 .. Len(all) : j # k => all[j] # all[k]
        /\ Values(all) = search.visited
        /\ DOMAIN search.maze_connections = search.visited \ {maze.entry}
        /\ \A c \in DOMAIN search.maze_connections :
             \E p \in { search.maze_connections[c] } :
               /\ \E d \in { NORTH, EAST, SOUTH, WEST } :
                    /\ Inside(p, d) /\ Toward(p, d, maze.width) = c
                    /\ Open(maze.map, p, d)
               /\ \E n \in 1 .. (Len(L) - 1) : p \in L[n] /\ c \in L[n + 1]
        /\ \A j \in 1 .. (Len(search.dequeued) - 1) :
             \E n \in 1 .. Len(L) :
               /\ search.dequeued[j] \in L[n]
               /\ \E k \in n .. Len(L) : search.dequeued[j + 1] \in L[k]

\* a stepwise search on a non-perfect grid is suspended with cells of two
\* hop distances in the queue, after a cell was reached whose open wall
\* leads to a visited cell that is neither its predecessor nor its successor
C27_Witness ==
  /\ SearchOnGrid /\ Completed /\ ~maze.is_perfect
  /\ search.fn = "find_path" /\ search.pc = "yield_cell"
  /\ Len(search.dequeued) >= 10 /\ Len(search.queue) >= 2
  /\ \E L \in { Layers(<< {maze.entry} >>, {maze.entry}) } :
       \E n \in 1 .. Len(L) :
         /\ search.queue[1] \in L[n]
         /\ search.queue[Len(search.queue)] \notin L[n]
  /\ \E c \in DOMAIN search.maze_connections :
       \E q \in Around({c}) \cap DOMAIN search.maze_connections :
         /\ search.maze_connections[c] # q
         /\ search.maze_connections[q] # c

\* a search has returned, or has yielded its last list, without having
\* dequeued the exit
EndedShort ==
  /\ \/ search.fn = "find_path_instant" /\ search.pc = "returned"
     \/ search.fn = "find_path" /\ search.pc \in { "yield_path", "exhausted" }
  /\ maze.exit \notin Values(search.dequeued)

\* C28: when the queue is exhausted without the exit having been dequeued,
\* find_path_instant does not return and find_path does not yield, as the
\* final path, a list whose last element is not the exit.
C28_NoFallbackPath ==
  EndedShort =>
    search.path # << >> /\ search.path[Len(search.path)] = maze.exit

\* the wall pairs among the non-obstacle cells that are open after the
\* augmentation pass and were not open in the tree
NewPairs == OpenPairs(maze.map, Playable) \ OpenPairs(run.tree, Playable)

\* C29 as stated: every wall pair opened by the augmentation pass joins two
\* cells that were single-opening dead ends of the tree, and the pass opens
\* no more pairs than the tree has dead ends.
C29_OnlyAmongDeadEnds ==
  Augmented =>
    \E D \in { DeadEnds(run.tree) } : \E N \in { NewPairs } :
      /\ \A e \in N : e[1] \in D /\ e[2] \in D
      /\ Cardinality(N) <= Cardinality(D)

\* C29 amended: every wall pair opened by the augmentation pass has at
\* least one of its two cells among the single-opening dead ends of the
\* tree (the other one is any cell of its neighbour list), and the pass
\* opens no more pairs than the tree has dead ends.
C29_FromDeadEnds ==
  Augmented =>
    \E D \in { DeadEnds(run.tree) } : \E N \in { NewPairs } :
      /\ \A e \in N : e[1] \in D \/ e[2] \in D
      /\ Cardinality(N) <= Cardinality(D)

\* the pass has opened several wall pairs, one of them between a dead end
\* of the tree and a cell that had two or more open walls in the tree
C29_Witness ==
  /\ Augmented
  /\ Cardinality(NewPairs) >= 2
  /\ \E e \in NewPairs :
       \E a \in { e[1], e[2] } : \E b \in { e[1], e[2] } :
         /\ a \in DeadEnds(run.tree)
         /\ Cardinality(OpenDirs(At(run.tree, b))) >= 2

\* next(sequence) has been called on a sequence of create_maze and has
\* yielded or found the sequence exhausted
Advanced ==
  /\ run.fn = "create_maze"
  /\ run.pc \in { "call", "yield_loop", "yield_final" }
  /\ run'.fn = "create_maze" /\ run'.seed = run.seed
  /\ run'.visualize = run.visualize
  /\ run'.pc \in { "yield_loop", "yield_final", "exhausted" }
  /\ run' # run

\* the last yield: every non-obstacle cell is Committed, the path is empty
FinalSnapshot ==
  /\ run'.pc = "yield_final"
  /\ gen'.found = Playable /\ run'.path = << >>

\* C30: with visualize = true and visualisation_tempo = 1 an advance of
\* create_maze either takes exactly one walk step (one call of
\* _select_random_neighbor: the step counter grows by one, one neighbour is
\* drawn, after the draw of the start of a new walk if the walk before has
\* ended, and of the root at the first advance) and yields in the walk loop;
\* or, the last walk having ended, takes no step and yields the set of all
\* non-obstacle cells with an empty path; or, after that yield, finds the
\* sequence exhausted.  With visualize = false the first advance yields the
\* final snapshot and the second finds the sequence exhausted.
C30_OneStepPerAdvance ==
  [][ Advanced =>
        /\ (run.visualize /\ gen'.visualisation_tempo = 1) =>
             \/ /\ run.pc = "call" /\ run'.pc = "yield_loop"
                /\ run'.i = 1 /\ gen'.draws = 3
             \/ /\ run.pc = "yield_loop" /\ run'.pc = "yield_loop"
                /\ run'.i = run.i + 1
                /\ gen'.draws = gen.draws + (IF run.path_found THEN 2 ELSE 1)
             \/ /\ run.pc = "yield_loop" /\ run.path_found
                /\ run'.i = run.i /\ FinalSnapshot
             \/ run.pc = "yield_final" /\ run'.pc = "exhausted"
        /\ ~run.visualize =>
             \/ run.pc = "call" /\ FinalSnapshot
             \/ run.pc = "yield_final" /\ run'.pc = "exhausted" ]_vars

\* a sequence made with visualize = true and advanced at tempo 1 is
\* exhausted after its last yield
C30_Witness ==
  /\ run.fn = "create_maze" /\ run.visualize
  /\ gen.visualisation_tempo = 1
  /\ run.pc = "exhausted" /\ run.i >= Cardinality(Playable)

\* a sequence made with visualize = false has given its only yield, after a
\* walk of many steps
OnlySnapshot ==
  /\ run.fn = "create_maze" /\ ~run.visualize
  /\ run.pc = "yield_final" /\ run.i >= Cardinality(Playable)

\* a search has run to its end on a Maze whose entry is its exit
SameEnds ==
  /\ maze.entry = maze.exit
  /\ \/ search.fn = "find_path_instant" /\ search.pc # "idle"
     \/ search.fn = "find_path" /\ search.pc \in { "yield_path", "exhausted" }

\* C31: when entry equals exit, find_path_instant returns the list [entry];
\* find_path yields [entry] for its one dequeue and then [entry] as the
\* final path, and nothing else.
C31_SingleCellPath ==
  SameEnds =>
    /\ search.path = << maze.entry >>
    /\ search.dequeued = << maze.entry >>
    /\ search.fn = "find_path_instant" => search.pc = "returned"
    /\ search.fn = "find_path" =>
         search.yields = << << maze.entry >>, << maze.entry >> >>

\* the sequence of find_path is exhausted on a generated grid whose entry is
\* its exit
C31_Witness ==
  /\ SameEnds /\ Completed
  /\ search.fn = "find_path" /\ search.pc = "exhausted"

\* find_path_instant has returned on a grid whose entry is its exit
InstantSameEnds ==
  SameEnds /\ Completed /\ search.fn = "find_path_instant"

---------------------------------------------------------------------------
(* Two sequences of create_maze on one MazeGenerator: the first one on the  *)
(* Maze object maze with the frame run, the second one on other.maze with   *)
(* the frame other.f.  Both read and write the fields gen.                  *)

\* the second Maze object and its sequence: made with visualize = false, so
\* its first advance runs its whole body
InitTwoRuns ==
  /\ maze = MazeInit(9, 7, << 0, 0 >>, << 8, 6 >>, TRUE, FALSE)
  /\ gen = NoGenerator
  /\ \E seed \in Seeds : run = NewFrame("create_maze", seed, TRUE)
  /\ \E seed \in Seeds, is_perfect \in BOOLEAN :
       other = [ maze |-> MazeInit(9, 7, << 0, 0 >>, << 8, 6 >>,
                                   is_perfect, FALSE),
                 f |-> NewFrame("create_maze", seed, FALSE),
                 search |-> NoSearch ]
  /\ finder = NoFinder /\ search = NoSearch
  /\ cli = NoCli /\ vis = NoVis /\ player = NoPlayer

\* the Maze whose map is the list the generator held before the advance of
\* the frame f of another Maze: a new list is made by _prepare_data when f
\* is at its first advance, otherwise the list is written in place
Aliased(m, f, g) ==
  IF f.pc = "call" THEN [m EXCEPT !.alias = FALSE]
  ELSE IF m.alias THEN [m EXCEPT !.map = g.maze_map]
  ELSE m

\* the first sequence is where the caller turns to the second one: not yet
\* started, early in its walk, or over
Early ==
  \/ run.pc \in { "call", "yield_final", "exhausted", "raised" }
  \/ run.pc = "yield_loop" /\ run.i <= MaxAbandon

\* next() on the first sequence
AdvanceFirst ==
  /\ run.pc \in { "call", "yield_loop", "yield_final" }
  /\ \E s1 \in { GeneratorRun(Resume(World), Fuel(World)) } :
       /\ maze' = s1.maze
       /\ gen' = s1.gen
       /\ run' = s1.f
       /\ other' = [other EXCEPT !.maze = Aliased(other.maze, run, s1.gen)]
  /\ UNCHANGED << finder, search, cli, vis, player >>

\* next() on the second sequence
AdvanceSecond ==
  /\ Early
  /\ other.f.pc \in { "call", "yield_loop", "yield_final" }
  /\ \E w \in { [maze |-> other.maze, gen |-> gen, f |-> other.f] } :
       \E s1 \in { GeneratorRun(Resume(w), Fuel(w)) } :
         /\ other' = [other EXCEPT !.maze = s1.maze, !.f = s1.f]
         /\ gen' = s1.gen
         /\ maze' = Aliased(maze, other.f, s1.gen)
  /\ UNCHANGED << run, finder, search, cli, vis, player >>

NextTwoRuns == AdvanceFirst \/ AdvanceSecond

\* the two sequences advanced in the interleavings the caller chooses
SpecTwoRuns == InitTwoRuns /\ [][NextTwoRuns]_vars

\* the grid that create_maze(m, seed, False) leaves in m when it is the only
\* sequence of a new generator
Alone(m, seed) ==
  LET w == [maze |-> m, gen |-> NoGenerator,
            f |-> NewFrame("create_maze", seed, FALSE)]
  IN  GeneratorRun(w, Fuel(w)).maze.map

\* C32: two sequences of create_maze on one MazeGenerator, advanced in any
\* interleaving, each finish, and each with the grid it leaves when it is
\* advanced alone.
C32_RunsCoexist ==
  /\ run.pc # "raised" /\ other.f.pc # "raised"
  /\ run.pc = "exhausted" => maze.map = Alone(maze, run.seed)
  /\ other.f.pc = "exhausted" =>
       other.maze.map = Alone(other.maze, other.f.seed)

---------------------------------------------------------------------------
(* Two searches on one PathFinder: the sequence of find_path on the Maze    *)
(* maze with the locals search, and a call for the Maze other.maze with the *)
(* locals other.search.  Both read the fields finder.                       *)

\* the Maze m with the grid a generator of its own has left in it
Generated(m, seed) == [m EXCEPT !.map = Alone(m, seed), !.alias = TRUE]

\* two generated Maze objects, and the sequence of find_path made for the
\* first one
InitTwoSearches ==
  /\ \E a \in Seeds :
       maze = Generated(MazeInit(9, 7, << 0, 0 >>, << 8, 6 >>, TRUE, FALSE), a)
  /\ \E b \in Seeds, exit \in { << 8, 6 >>, << 4, 4 >> } :
       other = [ maze |-> Generated(MazeInit(9, 7, << 0, 0 >>, exit,
                                             FALSE, FALSE), b),
                 f |-> NoFrame, search |-> NoSearch ]
  /\ search = [NoSearch EXCEPT !.fn = "find_path", !.pc = "created"]
  /\ finder = NoFinder
  /\ gen = NoGenerator /\ run = NoFrame
  /\ cli = NoCli /\ vis = NoVis /\ player = NoPlayer

\* next() on the sequence of find_path(maze)
AdvanceOwnSearch ==
  /\ search.pc \in { "created", "yield_cell", "yield_path" }
  /\ \E fd \in { IF search.pc = "created" THEN FinderPrepare(maze)
                  ELSE finder } :
       /\ finder' = fd
       /\ search' = SearchAdvance(fd, IF search.pc = "created"
                                      THEN NewSearch("find_path", fd)
                                      ELSE search)
  /\ UNCHANGED << maze, gen, run, cli, aside >>

\* finder.find_path_instant(other.maze)
OtherFindPathInstant ==
  /\ other.search.pc = "idle"
  /\ finder' = FinderPrepare(other.maze)
  /\ other' = [other EXCEPT !.search = find_path_instant(other.maze)]
  /\ UNCHANGED << maze, gen, run, search, cli, vis, player >>

\* the first next() on a sequence of find_path(other.maze)
OtherFindPath ==
  /\ other.search.pc = "idle"
  /\ \E fd \in { FinderPrepare(other.maze) } :
       /\ finder' = fd
       /\ other' = [other EXCEPT !.search =
                       SearchAdvance(fd, NewSearch("find_path", fd))]
  /\ UNCHANGED << maze, gen, run, search, cli, vis, player >>

NextTwoSearches ==
  \/ AdvanceOwnSearch
  \/ OtherFindPathInstant
  \/ OtherFindPath

\* a stepwise search and one call for another Maze, in any order
SpecTwoSearches == InitTwoSearches /\ [][NextTwoSearches]_vars

\* C33: a call of find_path_instant, or the first advance of another
\* sequence of find_path, for another Maze on the same PathFinder between
\* two advances of a stepwise search changes neither the cells that search
\* yields nor its final path: the search does not raise, and once it has
\* yielded its last list, the cells it has dequeued and its path are those
\* of a search of its own Maze.
C33_SearchKeepsMaze ==
  /\ search.pc # "raised"
  /\ search.pc \in { "yield_path", "exhausted" } =>
       \E r \in { find_path_instant(maze) } :
         /\ search.dequeued = r.dequeued
         /\ search.path = r.path

---------------------------------------------------------------------------
(* utils/MazeVisualizer.py: the callbacks of the event loop.  The drawing   *)
(* calls change no field that the generator, the path finder or the player  *)
(* reads and are left out.  A callback is a function of the record v of the *)
(* objects the visualizer holds: maze, gen (self.gen), f (the frame of      *)
(* self.generator), finder (self.path_finder), search (the locals of        *)
(* self.finder), vis, player (self.game_player); v.raised tells that an     *)
(* exception has left the callback, whose remaining lines are not run.      *)
(* vis.shared holds while path_finder.maze, maze.map and gen.maze_map are   *)
(* one list object.                                                         *)

\* the largest number of columns or rows the arrow keys add in the model
MaxGrow == 1

\* Player(maze), Player.__init__
Player(m) ==
  [ current_position |-> m.entry, taret_position |-> m.exit,
    maze_map |-> m.map, width |-> m.width, path |-> << m.entry >> ]

\* the objects the visualizer holds; call is the method a callback calls
\* next ("draw_maze", "draw_path" or "none"), after is the assignment that
\* follows this call ("maze_draw", "animation" or "none")
Stage ==
  [ maze |-> maze, gen |-> gen, f |-> run, finder |-> finder,
    search |-> search, vis |-> vis, player |-> player, raised |-> FALSE,
    call |-> "none", after |-> "none" ]

\* MazeVisualizer.create_player
create_player(v) == [v EXCEPT !.player = Player(v.maze)]

\* MazeVisualizer.reset_final_path: self.finder = find_path(self.maze)
reset_final_path(v) ==
  [v EXCEPT !.search = [NoSearch EXCEPT !.fn = "find_path",
                                        !.pc = "created"]]

\* draw_path, lines 500 and 502: b is the locals of the search when
\* find_path_instant ends or at the next yield of self.finder; of the
\* exceptions only the StopIteration of an exhausted sequence is caught.
\* self.path, which only the drawing reads, is left out.
AfterSearch(v, b) ==
  IF b.fn = "find_path_instant" THEN [v EXCEPT !.raised = (b.pc = "raised")]
  ELSE [v EXCEPT !.search = b, !.raised = (b.pc = "raised")]

\* MazeVisualizer.draw_path: find_path_instant, or next(self.finder) where
\* the sequence is not exhausted; both begin with _prepare_data, the
\* sequence at its first next
draw_path(v) ==
  IF ~v.vis.path_finding THEN v
  ELSE IF v.vis.animation /\ v.search.pc \in { "yield_cell", "yield_path" }
  THEN CHOOSE x \in { AfterSearch(v, b) :
                        b \in { SearchAdvance(v.finder, v.search) } } : TRUE
  ELSE IF v.vis.animation /\ v.search.pc # "created" THEN v
  ELSE CHOOSE x \in
         { AfterSearch([v EXCEPT !.finder = fd,
                                 !.vis.shared = v.maze.alias], b) :
             fd \in { FinderPrepare(v.maze) },
             b \in { IF v.vis.animation
                     THEN CHOOSE y \in
                            { SearchLoop(FinderPrepare(v.maze), b0) :
                                b0 \in { NewSearch("find_path",
                                           FinderPrepare(v.maze)) } } : TRUE
                     ELSE find_path_instant(v.maze) } } : TRUE

\* draw_maze, lines 469-470 and 481-487: s1 is the generator's world after
\* next(self.generator); the first advance of a sequence makes a new list
AfterNextGenerator(v, s1) ==
  LET u == [v EXCEPT !.maze = s1.maze, !.gen = s1.gen, !.f = s1.f,
                     !.finder.maze = IF v.vis.shared /\ v.f.pc # "call"
                                     THEN s1.gen.maze_map ELSE @,
                     !.vis.shared = @ /\ v.f.pc # "call",
                     !.call = "none"]
  IN  IF s1.f.pc = "raised" /\ v.f.pc # "raised"
      THEN [u EXCEPT !.raised = TRUE]
      ELSE IF s1.f.pc \in { "exhausted", "raised" }
      THEN create_player([u EXCEPT !.vis.maze_draw = FALSE])
      ELSE [u EXCEPT !.gen.visualisation_tempo = v.vis.slider_x]

\* MazeVisualizer.draw_maze, the hook of the loop (frozen and paused are
\* off): it calls draw_path, or advances the generation
draw_maze(v) ==
  IF ~v.vis.maze_draw THEN [v EXCEPT !.call = "draw_path"]
  ELSE CHOOSE x \in
         { AfterNextGenerator(v, s1) :
             s1 \in { IF v.f.pc \in { "call", "yield_loop", "yield_final" }
                      THEN CHOOSE r \in
                             { GeneratorRun(w, Fuel(w)) :
                                 w \in { Resume([maze |-> v.maze,
                                                 gen |-> v.gen,
                                                 f |-> v.f]) } } : TRUE
                      ELSE [maze |-> v.maze, gen |-> v.gen, f |-> v.f] } } :
         TRUE

\* the call a callback ends with, and the assignment after it, which is
\* not reached when the call raises
Called(v) ==
  CHOOSE x \in
    { IF c.raised \/ c.after = "none" THEN c
      ELSE IF c.after = "maze_draw" THEN [c EXCEPT !.vis.maze_draw = TRUE]
      ELSE [c EXCEPT !.vis.animation = TRUE] :
        c \in { IF b.call = "draw_path" THEN draw_path(b) ELSE b :
                  b \in { IF v.call = "draw_maze" THEN draw_maze(v)
                          ELSE v } } } : TRUE

\* MazeVisualizer.generate_new_maze(False), up to its call of draw_maze
generate_new_maze(v) ==
  create_player(reset_final_path(
    [v EXCEPT !.vis.maze_draw = TRUE, !.call = "draw_maze",
              !.f = NewFrame("create_maze", v.vis.seed, v.vis.animation)]))

\* MazeVisualizer.handle_animation
handle_animation(v) ==
  LET u == IF v.vis.path_finding /\ v.vis.animation
           THEN reset_final_path(v) ELSE v
  IN  IF ~v.vis.path_finding \/ v.vis.maze_draw
      THEN [u EXCEPT !.f = NewFrame("create_maze", v.vis.seed,
                                    v.vis.animation)]
      ELSE u

\* the value of slider_x after a click on the right end of the slider
FullTempo == 100

\* what a click lands on: an icon of the menu, the right end of the slider,
\* or "none" of them
Targets == { "refresh", "path", "animation", "slider", "none" }

\* MazeVisualizer.mouse_hook for a click on target: the icon's lines, then
\* line 728
mouse_hook(v, target) ==
  CASE target = "refresh" ->
         [generate_new_maze(v) EXCEPT !.after = "maze_draw"]
    [] target = "path" ->
         (IF v.vis.animation
          THEN reset_final_path([v EXCEPT !.vis.path_finding = ~@,
                                          !.vis.maze_draw = TRUE])
          ELSE [v EXCEPT !.vis.path_finding = ~@, !.vis.maze_draw = TRUE])
    [] target = "animation" ->
         [handle_animation([v EXCEPT !.vis.animation = ~@])
            EXCEPT !.vis.maze_draw = TRUE]
    [] target = "slider" ->
         [v EXCEPT !.vis.slider_x = FullTempo,
                   !.gen.visualisation_tempo = FullTempo,
                   !.vis.maze_draw = TRUE]
    [] OTHER -> [v EXCEPT !.vis.maze_draw = TRUE]

\* a variant of set_width that keeps entry and exit
SetWidthKeepsEnds(m, new_width) == [m EXCEPT !.width = new_width]

\* Maze.set_width
set_width(m, new_width) ==
  IF new_width # m.width
  THEN [m EXCEPT !.width = new_width, !.entry = 0,
                 !.exit = (m.height - 1) * new_width + new_width - 1]
  ELSE m

\* Maze.set_height
set_height(m, new_height) ==
  IF new_height # m.height
  THEN [m EXCEPT !.height = new_height, !.entry = 0,
                 !.exit = (new_height - 1) * m.width + m.width - 1]
  ELSE m

\* MazeVisualizer.new_size_maze
new_size_maze(v, x, y) ==
  generate_new_maze(
    [v EXCEPT !.maze = set_height(set_width(v.maze, v.maze.width + x),
                                  v.maze.height + y)])

\* the keys of the model: K_B stands for every key that changes none of the
\* fields above, PLUS for PLUS and MINUS
Keys == { "K_B", "PLUS", "LEFT", "UP", "RIGHT", "DOWN" }

\* MazeVisualizer.key_hook with game_mode off: lines 840-870 for an arrow,
\* lines 876-891 for another key
key_hook(v, keycode) ==
  LET x == CASE keycode = "LEFT" -> -1 [] keycode = "RIGHT" -> 1
             [] OTHER -> 0
      y == CASE keycode = "UP" -> -1 [] keycode = "DOWN" -> 1 [] OTHER -> 0
  IN  IF keycode \in { "LEFT", "UP", "RIGHT", "DOWN" }
      THEN (IF /\ ~v.maze.heart
               /\ keycode = "LEFT" => v.maze.width > 9
               /\ keycode = "UP" => v.maze.height > 7
            THEN new_size_maze(v, x, y) ELSE v)
      ELSE IF ~v.vis.path_finding THEN v
      ELSE IF ~v.vis.animation THEN [v EXCEPT !.call = "draw_path"]
      ELSE IF keycode = "PLUS"
      THEN [v EXCEPT !.vis.animation = FALSE, !.call = "draw_path",
                     !.after = "animation"]
      ELSE v

\* MazeVisualizer(maze, ...) has been constructed for a maze of the least
\* size that holds the sign; open_window has not been called
InitVisualizer ==
  /\ \E ends \in { << << 0, 0 >>, << 8, 6 >> >>, << << 8, 6 >>, << 0, 0 >> >> } :
       maze = MazeInit(9, 7, ends[1], ends[2], TRUE, FALSE)
  /\ gen = NoGenerator /\ run = NoFrame
  /\ finder = NoFinder
  /\ search = [NoSearch EXCEPT !.fn = "find_path", !.pc = "created"]
  /\ \E seed \in Seeds :
       vis = [NoVis EXCEPT !.maze_draw = TRUE, !.seed = seed, !.pc = "made"]
  /\ cli = NoCli /\ other = NoOther /\ player = NoPlayer

\* the objects of the visualizer after a callback
Becomes(v) ==
  /\ maze' = v.maze
  /\ gen' = v.gen
  /\ run' = v.f
  /\ finder' = v.finder
  /\ search' = v.search
  /\ vis' = v.vis
  /\ player' = v.player
  /\ UNCHANGED << cli, other >>

\* neither the generation nor the animated search is far into its run: the
\* keys and clicks of the model come at these moments
Timely ==
  /\ \/ run.pc \in { "call", "yield_final", "exhausted", "raised" }
     \/ run.pc = "yield_loop" /\ Cardinality(gen.found) = 1
                              /\ run.i <= MaxAbandon
  /\ \/ search.pc \in { "created", "yield_path", "exhausted", "raised" }
     \/ search.pc = "yield_cell" /\ Len(search.dequeued) <= MaxAbandon

\* open_window: generate_new_maze(False), then the loop
OpenWindow ==
  /\ vis.pc = "made"
  /\ \E a \in { generate_new_maze(Stage) } :
       \E v \in { Called(a) } : Becomes([v EXCEPT !.vis.pc = "loop"])

\* the loop calls its hook draw_maze
Tick ==
  /\ vis.pc = "loop"
  /\ \E a \in { [Stage EXCEPT !.call = "draw_maze"] } :
       \E v \in { Called(a) } : Becomes(v)

\* the clicks of the model: the slider is set before the animation and the
\* path are switched on
Clicked ==
  { target \in Targets :
      /\ target = "slider" =>
           vis.slider_x # FullTempo /\ ~vis.animation /\ ~vis.path_finding
      /\ target = "animation" => vis.slider_x = FullTempo }

\* the arrow keys of the model add MaxGrow columns and rows at most
Pressed ==
  { keycode \in { "LEFT", "UP", "RIGHT", "DOWN" } :
      keycode \in { "RIGHT", "DOWN" } =>
        maze.width + maze.height < 9 + 7 + MaxGrow }

\* the loop calls mouse_hook for a click, or key_hook for a key that is not
\* an arrow
Hook ==
  /\ vis.pc = "loop" /\ Timely
  /\ \E a \in { mouse_hook(Stage, target) : target \in Clicked }
                \cup { key_hook(Stage, keycode) :
                         keycode \in Keys \ { "LEFT", "UP", "RIGHT", "DOWN" } } :
       \E v \in { Called(a) } : Becomes(v)

NextVisualizer ==
  \/ OpenWindow
  \/ Tick
  \/ Hook

\* the event loop of the visualizer on a grid of one size
SpecVisualizer == InitVisualizer /\ [][NextVisualizer]_vars

\* the loop calls key_hook for an arrow key, or mouse_hook for a click on
\* the slider or on the animation icon
Resize ==
  /\ vis.pc = "loop" /\ Timely
  /\ \E a \in { mouse_hook(Stage, target) :
                   target \in Clicked \cap { "slider", "animation" } }
                \cup { key_hook(Stage, keycode) : keycode \in Pressed } :
       \E v \in { Called(a) } : Becomes(v)

NextResize ==
  \/ OpenWindow
  \/ Tick
  \/ Resize

\* the event loop of the visualizer with the arrow keys
SpecResize == InitVisualizer /\ [][NextResize]_vars

\* C34: in the event loop, for every sequence of ticks, key presses and
\* clicks, the path finder is never run on the Maze while a stepwise
\* generation of it is unfinished: the list the PathFinder has read in
\* _prepare_data is never the list of a generation that has Unvisited
\* (available) or Pending cells left.
C34_FinderAfterGeneration ==
  vis.shared =>
    /\ gen.available_cells = {}
    /\ \A k \in DOMAIN finder.maze : finder.maze[k] \notin { PENDING, LOOP }


---------------------------------------------------------------------------
(* The values of the finished grid.                                         *)

\* the cells of the sign that lie in the grid of the Maze object
Glyph == Sign42(maze.width, maze.height) \cap Cells(maze.width, maze.height)

\* C35: after a completed generation run no cell of maze.map holds a value
\* of the walk (16 or -1), every cell of the '42' sign holds 0xF, and every
\* non-obstacle cell holds a mask in 0 .. 14, so that the cells holding 0xF
\* are exactly the cells of the sign.
C35_FinishedValues ==
  Completed =>
    /\ \A c \in Cells(maze.width, maze.height) :
         At(maze.map, c) \notin { PENDING, LOOP }
    /\ \A c \in Glyph : At(maze.map, c) = WALLS
    /\ \A c \in Playable : At(maze.map, c) \in 0 .. 14
    /\ { c \in Cells(maze.width, maze.height) : At(maze.map, c) = WALLS }
         = Glyph

\* a run has completed, non-perfect over the heart layout or perfect over
\* the plain one, and some free cell has kept a wall
C35_Witness ==
  /\ Completed /\ Len(maze.map) = maze.width * maze.height
  /\ maze.heart = ~maze.is_perfect
  /\ \E c \in Playable : At(maze.map, c) \in 1 .. 14


---------------------------------------------------------------------------
(* Resizing the maze in the window.                                         *)

\* C36: a step that changes the width or the height of the Maze leaves
\* entry = 0 and exit = width * height - 1 for the new dimensions; under the
\* arrow-key resizes of a non-heart maze that starts at least 9 wide and 7
\* high the width stays >= 9 and the height >= 7, entry and exit stay
\* indices of the grid, distinct and off the '42' sign, and the generation
\* started by the resize passes validation (it does not raise).
C36_ResizeKeepsEnds ==
  /\ [](/\ maze.width >= 9 /\ maze.height >= 7
        /\ maze.entry # maze.exit /\ ValidEnds)
  /\ [][(maze'.width # maze.width \/ maze'.height # maze.height) =>
          /\ maze'.entry = 0
          /\ maze'.exit = maze'.width * maze'.height - 1
          /\ run'.pc \notin { "idle", "raised" }
          /\ gen'.width = maze'.width /\ gen'.height = maze'.height]_vars

\* a maze that started with entry in the last cell has been resized, and the
\* generation of the resized maze has been advanced
C36_Witness ==
  /\ vis.pc = "loop"
  /\ maze.width * maze.height > 9 * 7
  /\ maze.entry = 0 /\ maze.exit = maze.width * maze.height - 1
  /\ gen.width = maze.width /\ gen.height = maze.height
  /\ run.pc \in { "yield_final", "exhausted" }


---------------------------------------------------------------------------
(* The player of the game mode, on a generated grid.                        *)

\* the keys given to Player.move: the four arrows, backspace, and K_B for
\* every other key
GameKeys == { "UP", "RIGHT", "DOWN", "LEFT", "K_BACKSPACE", "K_B" }

\* direction = None
NoDirection == -1

\* Player._get_direction
_get_direction(key_pressed) ==
  CASE key_pressed = "UP" -> NORTH
    [] key_pressed = "RIGHT" -> EAST
    [] key_pressed = "DOWN" -> SOUTH
    [] key_pressed = "LEFT" -> WEST
    [] OTHER -> NoDirection

\* Player._is_valid_move
_is_valid_move(p, direction) ==
  ~BitSet(PyGet(p.maze_map, p.current_position), direction)

\* Player._get_next_cell
_get_next_cell(p, direction) ==
  [p EXCEPT !.current_position =
     CASE direction = NORTH -> @ - p.width
       [] direction = SOUTH -> @ + p.width
       [] direction = EAST -> @ + 1
       [] direction = WEST -> @ - 1]

\* a variant of _remove_loop that pops nothing
RemoveNothing(p) == p

RECURSIVE _remove_loop(_)
\* Player._remove_loop
_remove_loop(p) ==
  IF Len(p.path) # 0 /\ p.path[Len(p.path)] # p.current_position
  THEN _remove_loop([p EXCEPT !.path = SubSeq(@, 1, Len(@) - 1)])
  ELSE p

\* Player.move
move(p, key_pressed) ==
  LET direction == _get_direction(key_pressed)
  IN  IF direction # NoDirection /\ _is_valid_move(p, direction)
      THEN LET q == _get_next_cell(p, direction)
           IN  IF \E k \in DOMAIN q.path : q.path[k] = q.current_position
               THEN _remove_loop(q)
               ELSE [q EXCEPT !.path = Append(@, q.current_position)]
      ELSE IF key_pressed = "K_BACKSPACE" /\ Len(p.path) > 1
      THEN LET path == SubSeq(p.path, 1, Len(p.path) - 1)
           IN  [p EXCEPT !.path = path, !.current_position = path[Len(path)]]
      ELSE p

\* a generated Maze, perfect or not, with entry and exit in opposite corners
\* or the exit beside the sign, and the Player made for it
InitGame ==
  /\ \E seed \in Seeds, is_perfect \in BOOLEAN,
        ends \in { << << 0, 0 >>, << 8, 6 >> >>, << << 8, 6 >>, << 0, 0 >> >>,
                   << << 0, 0 >>, << 4, 4 >> >> } :
       maze = Generated(MazeInit(9, 7, ends[1], ends[2], is_perfect, FALSE),
                        seed)
  /\ player = Player(maze)
  /\ gen = NoGenerator /\ run = NoFrame
  /\ finder = NoFinder /\ search = NoSearch
  /\ cli = NoCli /\ other = NoOther /\ vis = NoVis

\* game_player.move(key_pressed)
Move ==
  /\ \E key_pressed \in GameKeys : player' = move(player, key_pressed)
  /\ UNCHANGED << maze, gen, run, finder, search, cli, other, vis >>

NextGame == Move

\* the moves of a player on a generated grid
SpecGame == InitGame /\ [][NextGame]_vars

\* C37: after any sequence of Player.move calls (arrow keys and backspace)
\* on a completed grid the path of the player starts at entry, contains no
\* cell twice, ends at current_position, is never empty, and every two
\* consecutive cells of it are adjacent with the wall between them open.
C37_PlayerPath ==
  LET path == player.path
  IN  /\ path # << >>
      /\ path[1] = maze.entry
      /\ path[Len(path)] = player.current_position
      /\ \A j, k \in DOMAIN path : path[j] = path[k] => j = k
      /\ \A k \in 1 .. (Len(path) - 1) :
           \E e \in Adjacent(maze.width, maze.height) :
             /\ e[1] = path[k] /\ e[2] = path[k + 1]
             /\ Open(maze.map, e[1], e[3])
             /\ Open(maze.map, e[2], opposite(e[3]))

\* on a grid with cycles the player stands on the exit after at least four
\* moves
C37_Witness ==
  /\ player.path # << >> /\ ~maze.is_perfect
  /\ Len(player.path) >= 5
  /\ player.current_position = maze.exit

====
